---- MODULE Spec2Model ----
(***************************************************************************)
(* State-machine model of MusicApp.c: the streaming loop of main (control  *)
(* input, source read, FIR equalizer, speed stage, ALSA write loop), the   *)
(* FIR filter, and the WSOLA time-scale modifier with its ring buffer.     *)
(*                                                                         *)
(* Units.  All audio is 16-bit PCM (pcm_format == SND_PCM_FORMAT_S16_LE,   *)
(* bits_per_sample == 16), so a read of read_ret bytes is modelled by its  *)
(* number of samples; block_align is num_channels samples.  Speed factors  *)
(* 0.5, 1.0, 1.5, 2.0 are kept as integer halves (1, 2, 3, 4) and FIR      *)
(* coefficients as integer hundredths, so that round() is exact.           *)
(* Not modelled: the mixer/volume, seeking ('f', 'b'), the log file, and   *)
(* the one-pole high-pass filter applied in place to the final payload     *)
(* (float arithmetic on the values only; it changes no count or position). *)
(***************************************************************************)
EXTENDS Integers, Sequences, FiniteSets, TLC

\* ------------------------------------------------------------ constants
MAX_FIR_TAPS == 64
NUM_SPEED_LEVELS == 4
NUM_EQ_PRESETS == 3
DEFAULT_ANALYSIS_FRAME_MS == 30
DEFAULT_SEARCH_WINDOW_MS == 5

DEFAULT_OVERLAP_PERCENTAGE == 50

INITIAL_SPEED_IDX == 1
INITIAL_EQ_IDX == 0
SHORT_MAX == 32767
SHORT_MIN == -32768

\* -------------------------------------------------------------- bounds
\* buffer_size (period_size * periods bytes) scaled down, in stereo frames
ChunkFrames == 2
\* the "+ 1024" slack of the ring capacity, scaled with the chunk
RingSlack == 4
\* wav_header.sample_rate of the tracks (N = 6, N_o = 3, S_w = 1)
SampleRate == 200
\* longest playlist
MaxTracks == 2
\* longest track, in chunks
MaxTrackChunks == 4
\* number of control characters read from stdin during a run
MaxCtrl == 2

ChunkSamples == 2 * ChunkFrames

\* the null pointer
NULL == [null |-> TRUE]

\* ------------------------------------------------------------- helpers
MAX(a, b) == IF a > b THEN a ELSE b

MIN(a, b) == IF a < b THEN a ELSE b

Abs(x) == IF x < 0 THEN -x ELSE x

\* C round() of the rational num/den, den > 0: half away from zero
RoundDiv(num, den) ==
    IF num >= 0 THEN (2 * num + den) \div (2 * den)
    ELSE -((2 * (-num) + den) \div (2 * den))

Clamp16(x) == IF x > SHORT_MAX THEN SHORT_MAX ELSE IF x < SHORT_MIN THEN SHORT_MIN ELSE x

Zeros(n) == [i \in 1..n |-> 0]

\* PLAYBACK_SPEED_FACTORS[] = {0.5, 1.0, 1.5, 2.0}, as halves, index 0..3
SpeedX2(idx) == <<1, 2, 3, 4>>[idx + 1]

\* a flat preset that would carry a second tap
FIR_NORMAL_TwoTaps == <<100, 100>>

\* EQ_PRESETS[]: FIR_NORMAL, FIR_BASS_BOOST, FIR_TREBLE_BOOST; coefficients
\* in hundredths, num_taps = Len
FIR_NORMAL == <<100>>

FIR_BASS_BOOST == <<40, 30, 20, 10, 5>>

FIR_TREBLE_BOOST == <<50, -50>>

EQ_PRESETS(idx) == <<FIR_NORMAL, FIR_BASS_BOOST, FIR_TREBLE_BOOST>>[idx + 1]

\* ----------------------------------------------------------------- FIR
\* the FIR state: fir_history[MAX_FIR_TAPS - 1] and fir_filter_history_idx
FirZero == [h |-> Zeros(MAX_FIR_TAPS - 1), idx |-> 0]

\* initialize_fir_history()
initialize_fir_history == FirZero

\* sum over j = 1 .. num_taps-1 of fir_history[access_idx] * coeffs[j]
RECURSIVE FirHistorySum(_, _, _)
FirHistorySum(fir, coeffs, j) ==
    IF j >= Len(coeffs) THEN 0
    ELSE LET history_len == Len(coeffs) - 1
             access_idx == (fir.idx - j + history_len) % history_len
         IN fir.h[access_idx + 1] * coeffs[j + 1] + FirHistorySum(fir, coeffs, j + 1)

\* one pass of the per-sample loop body of apply_fir_filter:
\* the output sample and the updated history
FirSample(fir, coeffs, current_sample) ==
    LET history_len == Len(coeffs) - 1
        filtered == current_sample * coeffs[1]
                    + (IF history_len > 0 THEN FirHistorySum(fir, coeffs, 1) ELSE 0)
        clamped == IF filtered > SHORT_MAX * 100 THEN SHORT_MAX * 100
                   ELSE IF filtered < SHORT_MIN * 100 THEN SHORT_MIN * 100
                   ELSE filtered
        nfir == IF history_len > 0
                THEN [h |-> [fir.h EXCEPT ![fir.idx + 1] = current_sample],
                      idx |-> (fir.idx + 1) % history_len]
                ELSE fir
    IN [y |-> RoundDiv(clamped, 100), fir |-> nfir]

\* apply_fir_filter(input, output, num_samples, filter): [out, fir]
RECURSIVE FirLoop(_, _, _, _, _)
FirLoop(fir, coeffs, input, i, out) ==
    IF i > Len(input) THEN [out |-> out, fir |-> fir]
    ELSE LET r == FirSample(fir, coeffs, input[i])
         IN FirLoop(r.fir, coeffs, input, i + 1, Append(out, r.y))

\* a filter that would start every block from a cleared history
apply_fir_filter_FreshHistory(fir, input, coeffs) ==
    IF Len(coeffs) = 0 \/ Len(coeffs) > MAX_FIR_TAPS
    THEN [out |-> input, fir |-> fir]
    ELSE FirLoop(FirZero, coeffs, input, 1, <<>>)

apply_fir_filter(fir, input, coeffs) ==
    IF Len(coeffs) = 0 \/ Len(coeffs) > MAX_FIR_TAPS
    THEN [out |-> input, fir |-> fir]
    ELSE FirLoop(fir, coeffs, input, 1, <<>>)

\* --------------------------------------------------------------- WSOLA
\* C's % on ints: the result has the sign of the dividend
CMod(a, b) == IF a >= 0 THEN a % b ELSE -((-a) % b)

\* generate_hann_window followed by convert_float_window_to_q15, as the
\* float arithmetic of the source evaluates it for the frame lengths used
HannQ15(length) ==
    CASE length = 1 -> <<32767>>
      [] length = 2 -> <<0, 0>>
      [] length = 3 -> <<0, 32767, 0>>
      [] length = 4 -> <<0, 24575, 24575, 0>>
      [] length = 5 -> <<0, 16383, 32767, 16383, 0>>
      [] length = 6 -> <<0, 11320, 29638, 29638, 11320, 0>>
      [] length = 7 -> <<0, 8191, 24575, 32767, 24575, 8191, 0>>
      [] length = 8 -> <<0, 6168, 20029, 31144, 31144, 20029, 6168, 0>>
      [] length = 9 -> <<0, 4798, 16383, 27968, 32767, 27968, 16383, 4798, 0>>

\* (int)round(analysis_hop_samples / speed), at least 1
SynthesisHop(H_a, speed_x2) ==
    LET calculated_hop == RoundDiv(2 * H_a, speed_x2)
    IN IF calculated_hop > 0 THEN calculated_hop ELSE 1

\* a parameter validation that would not look at the overlap percentage
WsolaInitParamsInvalidOverlapFree(sample_rate_arg, num_channels_arg, speed_x2, analysis_frame_ms_arg, overlap_percentage_arg, search_window_ms_arg) ==
    \/ sample_rate_arg <= 0 \/ num_channels_arg <= 0 \/ speed_x2 <= 0
    \/ analysis_frame_ms_arg <= 0 \/ search_window_ms_arg < 0

\* the parameter validation of wsola_init; the overlap percentage is in
\* hundredths (0.50 is 50)
WsolaInitParamsInvalid(sample_rate_arg, num_channels_arg, speed_x2, analysis_frame_ms_arg, overlap_percentage_arg, search_window_ms_arg) ==
    \/ sample_rate_arg <= 0 \/ num_channels_arg <= 0 \/ speed_x2 <= 0
    \/ analysis_frame_ms_arg <= 0
    \/ overlap_percentage_arg < 0 \/ overlap_percentage_arg >= 100
    \/ search_window_ms_arg < 0

\* wsola_init(&state, sample_rate, num_channels, speed, frame_ms, overlap,
\* search_ms): the new state, or NULL when the configuration is rejected.
\* The ring is malloc'ed; its slots are modelled as 0 until written
\* (wsola_process reads no slot before it is written in any state reached
\* here).
wsola_init(sample_rate_arg, num_channels_arg, speed_x2, analysis_frame_ms_arg, overlap_percentage_arg, search_window_ms_arg) ==
    LET N == (sample_rate_arg * analysis_frame_ms_arg) \div 1000
        N_o == IF N = 1 THEN 1 ELSE N \div 2
        H_a == N - N_o
        S_w == (sample_rate_arg * search_window_ms_arg) \div 1000
        capacity == ChunkSamples + N + 2 * S_w + RingSlack
    IN IF WsolaInitParamsInvalid(sample_rate_arg, num_channels_arg, speed_x2,
                                 analysis_frame_ms_arg, overlap_percentage_arg,
                                 search_window_ms_arg)
       THEN NULL
       ELSE IF num_channels_arg # 1 THEN NULL
       ELSE IF N <= 0 \/ N_o < 0 \/ H_a <= 0 THEN NULL
       ELSE IF N_o >= N THEN NULL
       ELSE [sample_rate |-> sample_rate_arg,
             current_speed_factor |-> speed_x2,
             analysis_frame_samples |-> N,
             overlap_samples |-> N_o,
             analysis_hop_samples |-> H_a,
             synthesis_hop_samples |-> SynthesisHop(H_a, speed_x2),
             search_window_samples |-> S_w,
             analysis_window_function |-> HannQ15(N),
             input_buffer_ring |-> Zeros(capacity),
             input_buffer_capacity |-> capacity,
             input_buffer_write_pos |-> 0,
             input_buffer_read_pos |-> 0,
             input_buffer_content |-> 0,
             output_overlap_add_buffer |-> Zeros(N_o),
             total_input_samples_processed |-> 0,
             total_output_samples_generated |-> 0,
             next_ideal_input_frame_start_sample_offset |-> 0,
             input_ring_buffer_stream_start_offset |-> 0]

\* a push into a full ring that would drop nothing
RingOverwriteOldestKeeping(state) == state

\* a push into a full ring that would drop the oldest sample without
\* advancing the stream offset of the ring start
RingOverwriteOldestSameOffset(state) ==
    [state EXCEPT
       !.input_buffer_read_pos = (@ + 1) % state.input_buffer_capacity,
       !.input_buffer_content = @ - 1]

\* a push into a full ring that would count the oldest sample as removed
\* without moving the read position
RingOverwriteOldestSameReadPos(state) ==
    [state EXCEPT
       !.input_ring_buffer_stream_start_offset = @ + 1,
       !.input_buffer_content = @ - 1]

\* the full-buffer branch of wsola_add_input_to_ring_buffer: the oldest
\* sample is given up before the new one is stored
RingOverwriteOldest(state) ==
    [state EXCEPT
       !.input_buffer_read_pos = (@ + 1) % state.input_buffer_capacity,
       !.input_ring_buffer_stream_start_offset = @ + 1,
       !.input_buffer_content = @ - 1]

\* wsola_add_input_to_ring_buffer: samples i .. Len(input_samples) pushed
RECURSIVE wsola_add_input_to_ring_buffer(_, _, _)
wsola_add_input_to_ring_buffer(state, input_samples, i) ==
    IF i > Len(input_samples) THEN state
    ELSE LET full == state.input_buffer_content >= state.input_buffer_capacity
             s1 == IF full THEN RingOverwriteOldest(state) ELSE state
             s2 == [s1 EXCEPT
                      !.input_buffer_ring[s1.input_buffer_write_pos + 1] = input_samples[i],
                      !.input_buffer_write_pos = (@ + 1) % s1.input_buffer_capacity,
                      !.input_buffer_content = @ + 1]
         IN wsola_add_input_to_ring_buffer(s2, input_samples, i + 1)

\* get_segment_from_ring_buffer: whether it succeeds, and what it copies
GetSegmentOk(state, length) == length > 0 /\ length <= state.input_buffer_content

GetSegment(state, start_index_in_ring, length) ==
    [i \in 1..length |->
        state.input_buffer_ring[((start_index_in_ring + (i - 1)) % state.input_buffer_capacity) + 1]]

\* the ring slots the copy loop of get_segment_from_ring_buffer reads
SegmentSlots(state, start_index_in_ring, length) ==
    {(start_index_in_ring + i) % state.input_buffer_capacity : i \in 0..(length - 1)}

\* the slots that hold the input_buffer_content samples of the ring: the
\* ones from input_buffer_read_pos on, up to where the next push stores
ValidSlots(state) ==
    {(state.input_buffer_read_pos + i) % state.input_buffer_capacity :
        i \in 0..(state.input_buffer_content - 1)}

\* a loop guard that would only ask for room for one more sample
WsolaLoopCanRunWhileRoom(state, output_samples_written, max_output_samples) ==
    LET N == state.analysis_frame_samples
        latest_required == state.next_ideal_input_frame_start_sample_offset
                           + state.search_window_samples + N
        latest_available == state.input_ring_buffer_stream_start_offset
                            + state.input_buffer_content
    IN /\ output_samples_written < max_output_samples
       /\ latest_available >= latest_required

\* the loop guard of wsola_process and its data-availability break
WsolaLoopCanRun(state, output_samples_written, max_output_samples) ==
    LET N == state.analysis_frame_samples
        latest_required == state.next_ideal_input_frame_start_sample_offset
                           + state.search_window_samples + N
        latest_available == state.input_ring_buffer_stream_start_offset
                            + state.input_buffer_content
    IN /\ output_samples_written + state.overlap_samples <= max_output_samples
       /\ latest_available >= latest_required

\* the ring index wsola_process takes for next_ideal_input_frame_start_sample_offset
IdealSearchCenterRingIdx(state) ==
    CMod(state.next_ideal_input_frame_start_sample_offset
           - state.input_ring_buffer_stream_start_offset
           + state.input_buffer_capacity,
         state.input_buffer_capacity)

\* the offsets find_best_match_segment can hand back to wsola_process: 0 for
\* the first frames (total_output_samples_generated == 0), otherwise a value
\* of the search window (the correlation arithmetic is left open here)
FindBestMatchOffsets(state) ==
    IF state.total_output_samples_generated = 0 \/ state.search_window_samples <= 0
    THEN {0}
    ELSE (-state.search_window_samples)..state.search_window_samples

\* the start indices find_best_match_segment passes to
\* get_segment_from_ring_buffer (with length N_o): the search centre alone
\* for the first frames or without a search window, otherwise the centre
\* displaced by the offsets of the coarse and the fine loop
SearchCandidateStarts(state) ==
    LET cap == state.input_buffer_capacity
        centre == IdealSearchCenterRingIdx(state)
    IN IF state.total_output_samples_generated = 0 \/ state.search_window_samples <= 0
       THEN {centre}
       ELSE {CMod(centre + offset + cap, cap) :
                offset \in (-state.search_window_samples)..state.search_window_samples}

\* the start indices wsola_process passes for the N-sample synthesis segment
SynthesisSegmentStarts(state) ==
    LET cap == state.input_buffer_capacity
    IN {CMod(IdealSearchCenterRingIdx(state) + offset + cap, cap) :
           offset \in FindBestMatchOffsets(state)}

\* an in-loop discard that would retain nothing before the next ideal offset
InLoopDiscardToIdeal(state) ==
    LET calc == state.next_ideal_input_frame_start_sample_offset
                - state.input_ring_buffer_stream_start_offset
        samples_to_discard == IF calc > state.input_buffer_content
                              THEN state.input_buffer_content ELSE calc
    IN IF state.input_buffer_content > 0 /\ calc > 0
       THEN [state EXCEPT
               !.input_buffer_read_pos = (@ + samples_to_discard) % state.input_buffer_capacity,
               !.input_buffer_content = @ - samples_to_discard,
               !.input_ring_buffer_stream_start_offset = @ + samples_to_discard]
       ELSE state

\* the discard at the end of one loop iteration of wsola_process
InLoopDiscard(state) ==
    LET raw == state.next_ideal_input_frame_start_sample_offset
               - state.search_window_samples - state.overlap_samples
        min_retainable_abs_offset == IF raw < 0 THEN 0 ELSE raw
        calc == IF state.input_buffer_content > 0
                THEN min_retainable_abs_offset - state.input_ring_buffer_stream_start_offset
                ELSE 0
        samples_to_discard == IF calc > state.input_buffer_content
                              THEN state.input_buffer_content ELSE calc
    IN IF calc > 0
       THEN [state EXCEPT
               !.input_buffer_read_pos = (@ + samples_to_discard) % state.input_buffer_capacity,
               !.input_buffer_content = @ - samples_to_discard,
               !.input_ring_buffer_stream_start_offset = @ + samples_to_discard]
       ELSE state

\* an iteration that would keep the first half of the windowed segment as
\* the overlap buffer
WsolaIterationTailFromStart(state, best_offset_from_ideal_center, out) ==
    LET N == state.analysis_frame_samples
        N_o == state.overlap_samples
        cap == state.input_buffer_capacity
        start_idx == CMod(IdealSearchCenterRingIdx(state) + best_offset_from_ideal_center + cap, cap)
        raw_segment == GetSegment(state, start_idx, N)
        segment == [i \in 1..N |->
                      (raw_segment[i] * state.analysis_window_function[i]) \div 32768]
        ola == [i \in 1..N_o |-> Clamp16(state.output_overlap_add_buffer[i] + segment[i])]
        advance == RoundDiv(2 * state.analysis_hop_samples, state.current_speed_factor)
        s1 == [state EXCEPT
                 !.output_overlap_add_buffer = [i \in 1..N_o |-> segment[i]],
                 !.next_ideal_input_frame_start_sample_offset = @ + advance,
                 !.total_input_samples_processed =
                     state.next_ideal_input_frame_start_sample_offset + advance]
    IN [state |-> InLoopDiscard(s1), out |-> out \o ola]

\* one iteration of the while loop of wsola_process with offset chosen by
\* the search: [state, out] with the N_o samples appended to the output
WsolaIteration(state, best_offset_from_ideal_center, out) ==
    LET N == state.analysis_frame_samples
        N_o == state.overlap_samples
        cap == state.input_buffer_capacity
        start_idx == CMod(IdealSearchCenterRingIdx(state) + best_offset_from_ideal_center + cap, cap)
        raw_segment == GetSegment(state, start_idx, N)
        segment == [i \in 1..N |->
                      (raw_segment[i] * state.analysis_window_function[i]) \div 32768]
        ola == [i \in 1..N_o |-> Clamp16(state.output_overlap_add_buffer[i] + segment[i])]
        advance == RoundDiv(2 * state.analysis_hop_samples, state.current_speed_factor)
        s1 == [state EXCEPT
                 !.output_overlap_add_buffer = [i \in 1..N_o |-> segment[N_o + i]],
                 !.next_ideal_input_frame_start_sample_offset = @ + advance,
                 !.total_input_samples_processed =
                     state.next_ideal_input_frame_start_sample_offset + advance]
    IN [state |-> InLoopDiscard(s1), out |-> out \o ola]

\* an end of wsola_process that would discard everything before the next
\* ideal frame start
WsolaAfterLoopToIdeal(state, output_samples_written) ==
    LET calc == state.next_ideal_input_frame_start_sample_offset
                - state.input_ring_buffer_stream_start_offset
        samples_to_discard == IF calc > state.input_buffer_content
                              THEN state.input_buffer_content ELSE calc
        s1 == IF state.input_buffer_content > 0 /\ calc > 0
              THEN [state EXCEPT
                      !.input_buffer_read_pos = (@ + samples_to_discard) % state.input_buffer_capacity,
                      !.input_buffer_content = @ - samples_to_discard,
                      !.input_ring_buffer_stream_start_offset = @ + samples_to_discard]
              ELSE state
    IN [s1 EXCEPT !.total_output_samples_generated = @ + output_samples_written]

\* the code of wsola_process after its loop: the conservative discard and
\* the update of total_output_samples_generated
WsolaAfterLoop(state, output_samples_written) ==
    LET raw == state.next_ideal_input_frame_start_sample_offset - state.search_window_samples
        min_retainable_abs_offset == IF raw < 0 THEN 0 ELSE raw
        calc == min_retainable_abs_offset - state.input_ring_buffer_stream_start_offset
        samples_to_discard == IF calc > state.input_buffer_content \div 2
                              THEN state.input_buffer_content \div 2 ELSE calc
        s1 == IF state.input_buffer_content > 0 /\ calc > 0
                 /\ samples_to_discard >= state.analysis_hop_samples \div 2
              THEN [state EXCEPT
                      !.input_buffer_read_pos = (@ + samples_to_discard) % state.input_buffer_capacity,
                      !.input_buffer_content = @ - samples_to_discard,
                      !.input_ring_buffer_stream_start_offset = @ + samples_to_discard]
              ELSE state
    IN [s1 EXCEPT !.total_output_samples_generated = @ + output_samples_written]

\* ------------------------------------------------------------ pipeline
VARIABLES
    pc,                         \* position in main: "ctrl", "read", "wsola", "write", "exit"
    tracks,                     \* music_files: per file num_channels and data length in samples
    current_track_idx,
    fpos,                       \* samples of the current file's data already read
    playback_paused,
    pcm_paused,                 \* the PCM device as left by snd_pcm_pause
    current_speed_idx,
    current_eq_idx,
    fir,                        \* fir_history and fir_filter_history_idx
    wsola_state,
    read_ret,                   \* samples returned by this iteration's fread
    src_block,                  \* source_buffer_for_speed_change_s16
    wsola_out,                  \* resampled buffer being filled by wsola_process
    max_wsola_output_samples,
    payload,                    \* alsa_payload_final
    ptr_to_write,               \* in frames from the start of payload
    remaining_frames_to_write,
    sink_block,                 \* samples the sink accepted from the current payload
    last_write,                 \* result of the last snd_pcm_writei of this block
    exit_status,                \* <<>> while main runs, then <<its return value>>
    write_error,                \* a snd_pcm_writei error other than -EPIPE happened
    track_fresh,                \* a track was loaded and no block of it processed yet
    fir_event,                  \* last continuity break since a sample was filtered
    ctrl_count,                 \* control characters read so far
    alloc_failures,             \* the mallocs of this iteration that returned NULL
    previous_best_offset,       \* static of find_best_match_segment
    previous_correlation,       \* static of find_best_match_segment, in 1/10000
    consecutive_low_correlations, \* static of find_best_match_segment
    search_result,              \* what the last call of find_best_match_segment did
    scratch                     \* the heap buffers of the current loop iteration

vars == <<pc, tracks, current_track_idx, fpos, playback_paused, pcm_paused,
          current_speed_idx, current_eq_idx, fir, wsola_state, read_ret, src_block,
          wsola_out, max_wsola_output_samples, payload, ptr_to_write,
          remaining_frames_to_write, sink_block, last_write, exit_status,
          write_error, track_fresh, fir_event, ctrl_count, alloc_failures,
          previous_best_offset, previous_correlation, consecutive_low_correlations,
          search_result,
          scratch>>

\* the memory of the alignment search and its last call; the specifications
\* that choose the offset with FindBestMatchOffsets do not follow them
search_vars == <<previous_best_offset, previous_correlation,
                 consecutive_low_correlations, search_result>>

\* no call of find_best_match_segment made
NoSearch == [called |-> FALSE]

\* the initializers of the statics
SearchStaticsInit ==
    /\ previous_best_offset = 0
    /\ previous_correlation = 0
    /\ consecutive_low_correlations = 0
    /\ search_result = NoSearch

\* the variables of one loop iteration of main (block-scoped locals)
iter_vars == <<read_ret, src_block, wsola_out, max_wsola_output_samples, payload,
               ptr_to_write, remaining_frames_to_write, sink_block, last_write,
               alloc_failures>>

\* ---- the heap buffers of one loop iteration
\* eq is eq_processed_audio_buffer_s16_this_iter, resampled is
\* resampled_audio_buffer_s16_this_iter, private is the copy made for the
\* sink; "none": no buffer is held under the name, "live": a buffer was
\* allocated and not freed, "freed_twice": a freed buffer was freed again;
\* final tells which buffer alsa_payload_final points to
ScratchBuffers == {"eq", "resampled", "private"}

\* the locals at the top of an iteration: every pointer is NULL
NoScratch == [eq |-> "none", resampled |-> "none", private |-> "none", final |-> "null"]

\* malloc succeeded for the buffer b
ScratchMalloc(s, b) == [s EXCEPT ![b] = "live"]

\* free of the buffer b
ScratchFree(s, b) == [s EXCEPT ![b] = IF @ = "live" THEN "none" ELSE "freed_twice"]

\* the output buffer of the EQ stage is allocated for every block
ScratchEqStage(failed) ==
    IF "eq" \in failed THEN NoScratch ELSE ScratchMalloc(NoScratch, "eq")

\* the output buffer of wsola_process is allocated before the call
ScratchWsolaStage(s) == ScratchMalloc(s, "resampled")

\* wsola_process returned samples: its buffer is the payload of the sink
ScratchWsolaOutput(s) == [s EXCEPT !.final = "resampled"]

\* wsola_process returned 0: its buffer is freed and the pointer made NULL
ScratchWsolaNoOutput(s) == ScratchFree(s, "resampled")

\* without WSOLA output: at 1.0x, or when the buffer of the simple speed
\* change cannot be allocated, the source block is played from a private
\* copy; else the simple speed change fills a new buffer, which is the
\* payload when it holds at least one frame
ScratchSimpleStage(s, speed_x2, failed, frames_for_alsa) ==
    IF speed_x2 = 2 \/ "simple" \in failed
    THEN [ScratchMalloc(s, "private") EXCEPT !.final = "private"]
    ELSE IF frames_for_alsa > 0
         THEN [ScratchMalloc(s, "resampled") EXCEPT !.final = "resampled"]
         ELSE ScratchMalloc(s, "resampled")

\* a snd_pcm_writei error other than -EPIPE: the speed-stage buffer is freed
\* when it is the payload, then goto playback_end
ScratchFatalWrite(s) ==
    IF s.final = "resampled" /\ s.resampled = "live"
    THEN ScratchFree(s, "resampled")
    ELSE s

\* the frees at the end of the iteration: the EQ buffer, the speed-stage
\* buffer unless it is the payload, then the payload
ScratchIterationEnd(s) ==
    LET s1 == IF s.eq = "live" THEN ScratchFree(s, "eq") ELSE s
        s2 == IF s1.resampled = "live" /\ s1.final # "resampled"
              THEN ScratchFree(s1, "resampled")
              ELSE s1
    IN IF s2.final # "null"
       THEN [ScratchFree(s2, s2.final) EXCEPT !.final = "null"]
       ELSE s2

num_music_files == Len(tracks)

wav_header == tracks[current_track_idx + 1]

\* the PCM data of the files
FilePattern == <<12000, -32768, 32767, -7, 20000>>

FileSample(track_idx, pos) == FilePattern[((pos + 2 * track_idx) % Len(FilePattern)) + 1]

TrackKinds ==
    {[num_channels |-> 1, len |-> MaxTrackChunks * ChunkSamples],
     [num_channels |-> 1, len |-> MaxTrackChunks * ChunkSamples - 1],
     [num_channels |-> 2, len |-> ChunkSamples + 1],
     [num_channels |-> 2, len |-> ChunkSamples + 3]}

Playlists == UNION {[1..n -> TrackKinds] : n \in 1..MaxTracks}

\* a track load that would keep the WSOLA state of the previous track
LoadTrackWsolaKeeping(old_state, header, speed_idx) == old_state

\* load_track: what it leaves in wsola_state (destroy, then init for 16-bit mono)
LoadTrackWsola(old_state, header, speed_idx) ==
    IF header.num_channels = 1
    THEN wsola_init(SampleRate, header.num_channels, SpeedX2(speed_idx),
                    DEFAULT_ANALYSIS_FRAME_MS, DEFAULT_OVERLAP_PERCENTAGE,
                    DEFAULT_SEARCH_WINDOW_MS)
    ELSE NULL

\* load_track: what it leaves in the FIR history
LoadTrackFir(old_fir) == initialize_fir_history

\* load_track(track_idx), for an index inside the playlist
load_track(track_idx) ==
    /\ fpos' = 0
    /\ playback_paused' = FALSE
    /\ fir' = LoadTrackFir(fir)
    /\ wsola_state' = LoadTrackWsola(wsola_state, tracks[track_idx + 1], current_speed_idx)
    /\ track_fresh' = TRUE
    /\ fir_event' = "track"

\* main, before the loop: WSOLA is initialised for S16_LE mono only
MainInitWsola(header, speed_idx) ==
    IF header.num_channels = 1
    THEN wsola_init(SampleRate, header.num_channels, SpeedX2(speed_idx),
                    DEFAULT_ANALYSIS_FRAME_MS, DEFAULT_OVERLAP_PERCENTAGE,
                    DEFAULT_SEARCH_WINDOW_MS)
    ELSE NULL

IterLocalsReset ==
    /\ read_ret' = 0
    /\ src_block' = <<>>
    /\ wsola_out' = <<>>
    /\ max_wsola_output_samples' = 0
    /\ payload' = <<>>
    /\ ptr_to_write' = 0
    /\ remaining_frames_to_write' = 0
    /\ sink_block' = <<>>
    /\ last_write' = "none"
    /\ alloc_failures' = {}

Init ==
    /\ tracks \in Playlists
    /\ pc = "ctrl"
    /\ current_track_idx = 0
    /\ fpos = 0
    /\ playback_paused = FALSE
    /\ pcm_paused = FALSE
    /\ current_speed_idx = INITIAL_SPEED_IDX
    /\ current_eq_idx = INITIAL_EQ_IDX
    /\ fir = initialize_fir_history
    /\ wsola_state = MainInitWsola(tracks[1], INITIAL_SPEED_IDX)
    /\ read_ret = 0
    /\ src_block = <<>>
    /\ wsola_out = <<>>
    /\ max_wsola_output_samples = 0
    /\ payload = <<>>
    /\ ptr_to_write = 0
    /\ remaining_frames_to_write = 0
    /\ sink_block = <<>>
    /\ last_write = "none"
    /\ exit_status = <<>>
    /\ write_error = FALSE
    /\ track_fresh = TRUE
    /\ fir_event = "track"
    /\ ctrl_count = 0
    /\ alloc_failures = {}
    /\ scratch = NoScratch
    /\ SearchStaticsInit

\* a loop that would go on to the read whether paused or not
AfterControlIgnoringPause(paused) == "read"

\* ---- control input, one character per loop iteration
\* if (playback_paused) { usleep; continue; }
AfterControl(paused) == IF paused THEN "ctrl" ELSE "read"

\* no character on stdin
NoInput ==
    /\ pc = "ctrl"
    /\ pc' = AfterControl(playback_paused)
    /\ UNCHANGED <<tracks, current_track_idx, fpos, playback_paused, pcm_paused,
                   current_speed_idx, current_eq_idx, fir, wsola_state, exit_status,
                   write_error, track_fresh, fir_event, ctrl_count>>
    /\ UNCHANGED iter_vars
    /\ UNCHANGED scratch
    /\ UNCHANGED search_vars

\* a pause toggle that would leave the FIR history as it is
PauseToggleFirKeeping(old_fir, now_paused) == old_fir

\* the FIR history after 'p', whichever way it toggles
PauseToggleFir(old_fir, now_paused) == initialize_fir_history

\* 'p'
TogglePause ==
    /\ pc = "ctrl" /\ ctrl_count < MaxCtrl
    /\ ctrl_count' = ctrl_count + 1
    /\ playback_paused' = ~playback_paused
    /\ pcm_paused' = playback_paused'
    /\ fir' = PauseToggleFir(fir, playback_paused')
    /\ fir_event' = IF playback_paused' THEN "pause" ELSE "resume"
    /\ pc' = AfterControl(playback_paused')
    /\ UNCHANGED <<tracks, current_track_idx, fpos, current_speed_idx, current_eq_idx,
                   wsola_state, exit_status, write_error, track_fresh>>
    /\ UNCHANGED iter_vars
    /\ UNCHANGED scratch
    /\ UNCHANGED search_vars

\* '.' and ',': dir is +1 or -1
ChangeTrack(dir) ==
    /\ pc = "ctrl" /\ ctrl_count < MaxCtrl
    /\ ctrl_count' = ctrl_count + 1
    /\ IF num_music_files > 1
       THEN LET idx == (current_track_idx + dir + num_music_files) % num_music_files
            IN /\ current_track_idx' = idx
               /\ load_track(idx)
               /\ pc' = AfterControl(FALSE)
       ELSE /\ pc' = AfterControl(playback_paused)
            /\ UNCHANGED <<current_track_idx, fpos, playback_paused, fir, wsola_state,
                           track_fresh, fir_event>>
    /\ UNCHANGED <<tracks, pcm_paused, current_speed_idx, current_eq_idx, exit_status,
                   write_error>>
    /\ UNCHANGED iter_vars
    /\ UNCHANGED scratch
    /\ UNCHANGED search_vars

NextTrack == ChangeTrack(1)

PrevTrack == ChangeTrack(-1)

\* a speed change that would leave the synthesis hop as it is
SpeedChangeWsolaKeepingHop(state, new_idx) ==
    IF state = NULL THEN NULL
    ELSE [state EXCEPT !.current_speed_factor = SpeedX2(new_idx)]

\* '[' and ']': the WSOLA state after the speed index became new_idx
SpeedChangeWsola(state, new_idx) ==
    IF state = NULL THEN NULL
    ELSE [state EXCEPT
            !.current_speed_factor = SpeedX2(new_idx),
            !.synthesis_hop_samples = SynthesisHop(state.analysis_hop_samples, SpeedX2(new_idx))]

ChangeSpeed(new_idx) ==
    /\ pc = "ctrl" /\ ctrl_count < MaxCtrl
    /\ ctrl_count' = ctrl_count + 1
    /\ current_speed_idx' = new_idx
    /\ wsola_state' = SpeedChangeWsola(wsola_state, new_idx)
    /\ pc' = AfterControl(playback_paused)
    /\ UNCHANGED <<tracks, current_track_idx, fpos, playback_paused, pcm_paused,
                   current_eq_idx, fir, exit_status, write_error, track_fresh, fir_event>>
    /\ UNCHANGED iter_vars
    /\ UNCHANGED scratch
    /\ UNCHANGED search_vars

SpeedDown == ChangeSpeed(IF current_speed_idx > 0 THEN current_speed_idx - 1 ELSE current_speed_idx)

SpeedUp ==
    ChangeSpeed(IF current_speed_idx < NUM_SPEED_LEVELS - 1
                THEN current_speed_idx + 1 ELSE current_speed_idx)

\* '1' .. '3': the FIR history after preset new_eq_idx was asked for
SelectEqFir(old_fir, old_eq_idx, new_eq_idx) ==
    IF new_eq_idx # old_eq_idx THEN initialize_fir_history ELSE old_fir

SelectEq(new_eq_idx) ==
    /\ pc = "ctrl" /\ ctrl_count < MaxCtrl
    /\ ctrl_count' = ctrl_count + 1
    /\ current_eq_idx' = new_eq_idx
    /\ fir' = SelectEqFir(fir, current_eq_idx, new_eq_idx)
    /\ fir_event' = IF new_eq_idx # current_eq_idx THEN "eq" ELSE fir_event
    /\ pc' = AfterControl(playback_paused)
    /\ UNCHANGED <<tracks, current_track_idx, fpos, playback_paused, pcm_paused,
                   current_speed_idx, wsola_state, exit_status, write_error, track_fresh>>
    /\ UNCHANGED iter_vars
    /\ UNCHANGED scratch
    /\ UNCHANGED search_vars

\* ---- source read and processing
\* fread(buff, 1, buffer_size, fp), in samples
NextReadRet == MIN(ChunkSamples, wav_header.len - fpos)

\* playback_end: ... app_log("MusicApp exiting normally."); return 0;
PlaybackEndStatus == 0

\* read_ret == 0 with another file left in the playlist: load it and continue
ReadEofAdvance ==
    /\ pc = "read"
    /\ NextReadRet = 0
    /\ num_music_files > 1 /\ current_track_idx < num_music_files - 1
    /\ current_track_idx' = current_track_idx + 1
    /\ load_track(current_track_idx + 1)
    /\ pc' = "ctrl"
    /\ UNCHANGED <<tracks, pcm_paused, current_speed_idx, current_eq_idx, exit_status,
                   write_error, ctrl_count>>
    /\ UNCHANGED iter_vars
    /\ UNCHANGED scratch
    /\ UNCHANGED search_vars

\* read_ret == 0 on the last (or only) file: break
ReadEofStop ==
    /\ pc = "read"
    /\ NextReadRet = 0
    /\ ~(num_music_files > 1 /\ current_track_idx < num_music_files - 1)
    /\ pc' = "exit"
    /\ exit_status' = <<PlaybackEndStatus>>
    /\ UNCHANGED <<tracks, current_track_idx, fpos, playback_paused, pcm_paused,
                   current_speed_idx, current_eq_idx, fir, wsola_state, write_error,
                   track_fresh, fir_event, ctrl_count>>
    /\ UNCHANGED iter_vars
    /\ UNCHANGED scratch
    /\ UNCHANGED search_vars

\* read_ret > 0 but less than one frame: break
ReadPartialFrameStop ==
    /\ pc = "read"
    /\ NextReadRet > 0
    /\ NextReadRet \div wav_header.num_channels = 0
    /\ fpos' = fpos + NextReadRet
    /\ read_ret' = NextReadRet
    /\ pc' = "exit"
    /\ exit_status' = <<PlaybackEndStatus>>
    /\ UNCHANGED <<tracks, current_track_idx, playback_paused, pcm_paused,
                   current_speed_idx, current_eq_idx, fir, wsola_state, write_error,
                   track_fresh, fir_event, ctrl_count>>
    /\ UNCHANGED <<src_block, wsola_out, max_wsola_output_samples, payload, ptr_to_write,
                   remaining_frames_to_write, sink_block, last_write>>
    /\ UNCHANGED alloc_failures
    /\ UNCHANGED scratch
    /\ UNCHANGED search_vars

\* the samples fread put into buff
ReadSamples == [i \in 1..NextReadRet |-> FileSample(current_track_idx, fpos + i - 1)]

\* bool use_wsola (use_wsola_for_speed_control is left at its default, true)
UseWsola ==
    /\ wsola_state # NULL
    /\ wav_header.num_channels = 1
    /\ SpeedX2(current_speed_idx) # 2

\* the simple pitch-changing speed adjustment: the samples it generates
SimpleSpeedSamples(source, speed_x2) ==
    LET target_num_output_samples == RoundDiv(2 * Len(source), speed_x2)
        generated == Cardinality({k \in 0..(target_num_output_samples - 1) :
                                     (k * speed_x2) \div 2 < Len(source)})
    IN [k \in 1..generated |-> source[(((k - 1) * speed_x2) \div 2) + 1]]

\* a speed stage that would lose the last frame of every block
SpeedStageFallbackShort(source, frames_read_this_iteration, num_channels, speed_x2) ==
    SubSeq(source, 1, (frames_read_this_iteration - 1) * num_channels)

\* the speed stage when WSOLA did not deliver the buffer: the samples of
\* buffer_for_alsa that frames_for_alsa covers
SpeedStageFallback(source, frames_read_this_iteration, num_channels, speed_x2) ==
    IF speed_x2 = 2
    THEN SubSeq(source, 1, frames_read_this_iteration * num_channels)
    ELSE LET resampled == SimpleSpeedSamples(source, speed_x2)
             frames_for_alsa == Len(resampled) \div num_channels
         IN SubSeq(resampled, 1, frames_for_alsa * num_channels)

\* entry of the ALSA write loop for the samples in p
StartWrite(p) ==
    /\ payload' = p
    /\ ptr_to_write' = 0
    /\ remaining_frames_to_write' = Len(p) \div wav_header.num_channels
    /\ sink_block' = <<>>
    /\ last_write' = "none"
    /\ pc' = "write"

\* a block of at least one frame was read, WSOLA not used: EQ, then the
\* 1.0x pass-through or the simple speed change
ProcessDirect ==
    /\ pc = "read"
    /\ NextReadRet \div wav_header.num_channels > 0
    /\ ~UseWsola
    /\ LET eq == apply_fir_filter(fir, ReadSamples, EQ_PRESETS(current_eq_idx))
       IN /\ fir' = eq.fir
          /\ src_block' = eq.out
          /\ StartWrite(SpeedStageFallback(eq.out, NextReadRet \div wav_header.num_channels,
                                           wav_header.num_channels, SpeedX2(current_speed_idx)))
    /\ fpos' = fpos + NextReadRet
    /\ read_ret' = NextReadRet
    /\ track_fresh' = FALSE
    /\ fir_event' = "none"
    /\ UNCHANGED <<tracks, current_track_idx, playback_paused, pcm_paused,
                   current_speed_idx, current_eq_idx, wsola_state, exit_status,
                   write_error, ctrl_count, wsola_out, max_wsola_output_samples>>
    /\ UNCHANGED alloc_failures
    /\ scratch' = ScratchSimpleStage(ScratchEqStage({}), SpeedX2(current_speed_idx), {},
                                     Len(payload') \div wav_header.num_channels)
    /\ UNCHANGED search_vars

\* a block was read and WSOLA is used: EQ, then entry of wsola_process
\* (the block is pushed into the ring buffer)
ProcessWsolaStart ==
    /\ pc = "read"
    /\ NextReadRet \div wav_header.num_channels > 0
    /\ UseWsola
    /\ LET eq == apply_fir_filter(fir, ReadSamples, EQ_PRESETS(current_eq_idx))
       IN /\ fir' = eq.fir
          /\ src_block' = eq.out
          /\ wsola_state' = wsola_add_input_to_ring_buffer(wsola_state, eq.out, 1)
    /\ max_wsola_output_samples' = 2 * NextReadRet + wsola_state.analysis_frame_samples
    /\ wsola_out' = <<>>
    /\ fpos' = fpos + NextReadRet
    /\ read_ret' = NextReadRet
    /\ track_fresh' = FALSE
    /\ fir_event' = "none"
    /\ pc' = "wsola"
    /\ UNCHANGED <<tracks, current_track_idx, playback_paused, pcm_paused,
                   current_speed_idx, current_eq_idx, exit_status, write_error,
                   ctrl_count, payload, ptr_to_write, remaining_frames_to_write,
                   sink_block, last_write>>
    /\ UNCHANGED alloc_failures
    /\ scratch' = ScratchWsolaStage(ScratchEqStage({}))
    /\ UNCHANGED search_vars

\* whether wsola_process runs another iteration of its loop to the end
WsolaIterates ==
    /\ WsolaLoopCanRun(wsola_state, Len(wsola_out), max_wsola_output_samples)
    /\ GetSegmentOk(wsola_state, wsola_state.analysis_frame_samples)

\* one iteration of the loop of wsola_process
WsolaIter ==
    /\ pc = "wsola"
    /\ WsolaIterates
    /\ \E off \in FindBestMatchOffsets(wsola_state) :
          LET r == WsolaIteration(wsola_state, off, wsola_out)
          IN /\ wsola_state' = r.state
             /\ wsola_out' = r.out
    /\ UNCHANGED <<pc, tracks, current_track_idx, fpos, playback_paused, pcm_paused,
                   current_speed_idx, current_eq_idx, fir, exit_status, write_error,
                   track_fresh, fir_event, ctrl_count, read_ret, src_block,
                   max_wsola_output_samples, payload, ptr_to_write,
                   remaining_frames_to_write, sink_block, last_write>>
    /\ UNCHANGED alloc_failures
    /\ UNCHANGED scratch
    /\ UNCHANGED search_vars

\* wsola_process leaves its loop and returns; main takes its output, or
\* with 0 samples returned falls into the simple speed change
WsolaReturn ==
    /\ pc = "wsola"
    /\ ~WsolaIterates
    /\ wsola_state' = WsolaAfterLoop(wsola_state, Len(wsola_out))
    /\ IF Len(wsola_out) > 0
       THEN StartWrite(wsola_out)
       ELSE StartWrite(SpeedStageFallback(src_block, read_ret \div wav_header.num_channels,
                                          wav_header.num_channels, SpeedX2(current_speed_idx)))
    /\ UNCHANGED <<tracks, current_track_idx, fpos, playback_paused, pcm_paused,
                   current_speed_idx, current_eq_idx, fir, exit_status, write_error,
                   track_fresh, fir_event, ctrl_count, read_ret, src_block, wsola_out,
                   max_wsola_output_samples>>
    /\ UNCHANGED alloc_failures
    /\ scratch' = IF Len(wsola_out) > 0
                  THEN ScratchWsolaOutput(scratch)
                  ELSE ScratchSimpleStage(ScratchWsolaNoOutput(scratch),
                                          SpeedX2(current_speed_idx), {},
                                          Len(payload') \div wav_header.num_channels)
    /\ UNCHANGED search_vars

\* ---- the ALSA write loop
\* a sink whose successful write may accept no frame at all
FramesAcceptedOrNone(remaining) == 0..remaining

\* the non-negative results of snd_pcm_writei(pcm_handle, ptr, remaining):
\* a blocking write that succeeds accepts at least one frame
FramesAccepted(remaining) == 1..remaining

\* snd_pcm_writei accepted n frames
WriteAccept ==
    /\ pc = "write"
    /\ remaining_frames_to_write > 0
    /\ \E n \in FramesAccepted(remaining_frames_to_write) :
          /\ sink_block' = sink_block \o
                 SubSeq(payload, ptr_to_write * wav_header.num_channels + 1,
                        (ptr_to_write + n) * wav_header.num_channels)
          /\ ptr_to_write' = ptr_to_write + n
          /\ remaining_frames_to_write' = remaining_frames_to_write - n
    /\ last_write' = "ok"
    /\ UNCHANGED <<pc, tracks, current_track_idx, fpos, playback_paused, pcm_paused,
                   current_speed_idx, current_eq_idx, fir, wsola_state, exit_status,
                   write_error, track_fresh, fir_event, ctrl_count, read_ret, src_block,
                   wsola_out, max_wsola_output_samples, payload>>
    /\ UNCHANGED alloc_failures
    /\ UNCHANGED scratch
    /\ UNCHANGED search_vars

\* an underrun handler that would step over the frame it failed to write
UnderrunPositionSkipping(ptr, remaining) == <<ptr + 1, remaining - 1>>

\* what an underrun leaves of the write position and the remaining count
UnderrunPosition(ptr, remaining) == <<ptr, remaining>>

\* snd_pcm_writei returned -EPIPE: snd_pcm_prepare, then the loop retries
WriteUnderrun ==
    /\ pc = "write"
    /\ remaining_frames_to_write > 0
    /\ last_write' = "underrun"
    /\ ptr_to_write' = UnderrunPosition(ptr_to_write, remaining_frames_to_write)[1]
    /\ remaining_frames_to_write' = UnderrunPosition(ptr_to_write, remaining_frames_to_write)[2]
    /\ UNCHANGED <<pc, tracks, current_track_idx, fpos, playback_paused, pcm_paused,
                   current_speed_idx, current_eq_idx, fir, wsola_state, exit_status,
                   write_error, track_fresh, fir_event, ctrl_count, read_ret, src_block,
                   wsola_out, max_wsola_output_samples, payload, sink_block>>
    /\ UNCHANGED alloc_failures
    /\ UNCHANGED scratch
    /\ UNCHANGED search_vars

\* an error branch that would stay in the write loop
FatalWriteTargetRetry == "write"

\* where main continues after a snd_pcm_writei error other than -EPIPE
FatalWriteTarget == "exit"

\* snd_pcm_writei returned another error: goto playback_end
WriteFatal ==
    /\ pc = "write"
    /\ remaining_frames_to_write > 0
    /\ last_write' = "error"
    /\ write_error' = TRUE
    /\ pc' = FatalWriteTarget
    /\ exit_status' = <<PlaybackEndStatus>>
    /\ UNCHANGED <<tracks, current_track_idx, fpos, playback_paused, pcm_paused,
                   current_speed_idx, current_eq_idx, fir, wsola_state, track_fresh,
                   fir_event, ctrl_count, read_ret, src_block, wsola_out,
                   max_wsola_output_samples, payload, ptr_to_write,
                   remaining_frames_to_write, sink_block>>
    /\ UNCHANGED alloc_failures
    /\ scratch' = ScratchFatalWrite(scratch)
    /\ UNCHANGED search_vars

\* the write loop is over: free the buffers; a short read was the last chunk
IterationEnd ==
    /\ pc = "write"
    /\ remaining_frames_to_write = 0
    /\ IF read_ret < ChunkSamples
       THEN /\ pc' = "exit"
            /\ exit_status' = <<PlaybackEndStatus>>
            /\ UNCHANGED iter_vars
       ELSE /\ pc' = "ctrl"
            /\ exit_status' = exit_status
            /\ IterLocalsReset
    /\ scratch' = ScratchIterationEnd(scratch)
    /\ UNCHANGED <<tracks, current_track_idx, fpos, playback_paused, pcm_paused,
                   current_speed_idx, current_eq_idx, fir, wsola_state, write_error,
                   track_fresh, fir_event, ctrl_count>>
    /\ UNCHANGED search_vars

Next ==
    \/ NoInput
    \/ TogglePause
    \/ NextTrack
    \/ PrevTrack
    \/ SpeedDown
    \/ SpeedUp
    \/ \E k \in 0..(NUM_EQ_PRESETS - 1) : SelectEq(k)
    \/ ReadEofAdvance
    \/ ReadEofStop
    \/ ReadPartialFrameStop
    \/ ProcessDirect
    \/ ProcessWsolaStart
    \/ WsolaIter
    \/ WsolaReturn
    \/ WriteAccept
    \/ WriteUnderrun
    \/ WriteFatal
    \/ IterationEnd

Spec == Init /\ [][Next]_vars

\* the sink never reports -EPIPE forever: a call of snd_pcm_writei eventually
\* accepts frames or fails with another error
LiveSpec == Spec /\ WF_vars(WriteAccept \/ WriteFatal)

\* ============================================================== claims
frames_for_alsa_final == Len(payload) \div wav_header.num_channels

\* C1: in the write loop the sink has received exactly the first ptr_to_write
\* frames of the block, in order and once each, and ptr_to_write plus the
\* remaining count is the block's frame count F (so at remaining = 0 it has
\* received frames 0..F-1); a step that ends in an underrun result changes
\* neither the write position, nor the remaining count, nor the block.
C1_SinkReceivesBlockInOrder ==
    /\ [](pc = "write" =>
            /\ ptr_to_write + remaining_frames_to_write = frames_for_alsa_final
            /\ sink_block = SubSeq(payload, 1, ptr_to_write * wav_header.num_channels))
    /\ [][(pc = "write" /\ last_write' = "underrun") =>
            /\ ptr_to_write' = ptr_to_write
            /\ remaining_frames_to_write' = remaining_frames_to_write
            /\ payload' = payload
            /\ sink_block' = sink_block]_vars

\* C1 witness: an underrun reported in the middle of a block, after a
\* partial write and with frames still pending
C1_UnderrunMidBlock ==
    /\ pc = "write" /\ last_write = "underrun"
    /\ ptr_to_write > 0 /\ remaining_frames_to_write > 0

\* C2 as amended: once the write loop is entered it ends with zero frames
\* remaining, unless a write fails with an error other than underrun
C2_WriteLoopDrainsOrAborts ==
    (pc = "write") ~> ((pc = "write" /\ remaining_frames_to_write = 0) \/ write_error)

\* C2 witness: the write loop of a block of several frames has ended with
\* every frame written
C2_BlockFullyWritten ==
    /\ pc = "write" /\ remaining_frames_to_write = 0 /\ last_write = "ok"
    /\ frames_for_alsa_final > 1 /\ sink_block = payload

\* C2 as stated: once the write loop is entered it ends with zero frames
\* remaining
C2_WriteLoopAlwaysDrains ==
    (pc = "write") ~> (pc = "write" /\ remaining_frames_to_write = 0)

\* C3: after a write error other than underrun main is at playback_end, and
\* no step reads the source, filters, time-scales or writes to the sink
C3_FatalErrorAborts ==
    /\ [](write_error => pc = "exit")
    /\ [][write_error =>
            /\ pc' = "exit"
            /\ fpos' = fpos /\ read_ret' = read_ret
            /\ fir' = fir /\ wsola_state' = wsola_state /\ payload' = payload
            /\ sink_block' = sink_block /\ ptr_to_write' = ptr_to_write]_vars

\* C3 witness: the error arrived with part of the block written and part pending
C3_AbortedMidBlock ==
    /\ write_error /\ pc = "exit"
    /\ ptr_to_write > 0 /\ remaining_frames_to_write > 0

\* C4: what main returns after a write error other than underrun differs
\* from what it returns after a normal end of playback
C4_FatalOutcomeDistinguishable ==
    (pc = "exit" /\ write_error) => exit_status # <<PlaybackEndStatus>>

\* what the WSOLA modifier has produced so far, the call in progress included
WsolaProduced ==
    wsola_state.total_output_samples_generated + (IF pc = "wsola" THEN Len(wsola_out) ELSE 0)

\* C5: with the speed factor s constant since the WSOLA state received its
\* first input (at most one control character was read, and the state is
\* not fed at 1.0x), past the first two frames, the output count is within
\* N_o of consumed/s:  | s*produced - consumed | <= s*N_o, in halves of s
C5_OutputLengthIsInputOverSpeed ==
    (/\ wsola_state # NULL /\ ctrl_count <= 1
     /\ wsola_state.current_speed_factor # 2
     /\ WsolaProduced >= 2 * wsola_state.overlap_samples)
    => Abs(wsola_state.current_speed_factor * WsolaProduced
           - 2 * wsola_state.total_input_samples_processed)
         <= wsola_state.current_speed_factor * wsola_state.overlap_samples

\* the samples this iteration's fread returned, before any processing
RawBlock == [i \in 1..read_ret |-> FileSample(current_track_idx, fpos - read_ret + i - 1)]

\* FIR histories to start the filter from: zero, and histories full of
\* earlier samples with the write index at either end or inside
FirHistories ==
    {FirZero} \cup
    {[h |-> [i \in 1..(MAX_FIR_TAPS - 1) |-> FilePattern[((i + k) % Len(FilePattern)) + 1]],
      idx |-> j] : k \in 0..(Len(FilePattern) - 1), j \in {0, 1, MAX_FIR_TAPS - 2}}

\* the stage between the equalizer and the private copy has run
SpeedStageDone == pc = "write"

\* C6 as amended: at speed 1.0 the speed stage hands on the whole frames of
\* the block it received, values and order unchanged; the samples of a
\* trailing incomplete frame are not handed on
C6_UnitSpeedHandsOnWholeFrames ==
    (SpeedStageDone /\ SpeedX2(current_speed_idx) = 2) =>
        payload = SubSeq(src_block, 1,
                         (Len(src_block) \div wav_header.num_channels) * wav_header.num_channels)

\* C6 witness: a stereo block of one and a half frames at speed 1.0
C6_UnitSpeedTrailingHalfFrame ==
    /\ SpeedStageDone /\ SpeedX2(current_speed_idx) = 2
    /\ Len(payload) > 0 /\ Len(src_block) > Len(payload)

\* C6 as stated: at speed 1.0 the block handed on is exactly the block
\* received, with the same number of samples
C6_UnitSpeedHandsOnBlock ==
    (SpeedStageDone /\ SpeedX2(current_speed_idx) = 2) => payload = src_block

\* C7: apply_fir_filter with the Normal preset returns its input block,
\* from every FIR history; in main, with the Normal preset selected the
\* equalized block is the block read
C7_NormalPresetIsIdentity ==
    (pc \in {"wsola", "write"} /\ read_ret > 0) =>
        /\ \A hist \in FirHistories :
              apply_fir_filter(hist, RawBlock, FIR_NORMAL).out = RawBlock
        /\ (EQ_PRESETS(current_eq_idx) = FIR_NORMAL => src_block = RawBlock)

\* C7 witness: a full block holding both extreme sample values went
\* through the Normal preset
C7_NormalPresetApplied ==
    /\ pc = "write" /\ current_eq_idx = 0 /\ Len(src_block) = ChunkSamples
    /\ \E i \in 1..Len(src_block) : src_block[i] = SHORT_MIN
    /\ \E i \in 1..Len(src_block) : src_block[i] = SHORT_MAX

\* the fields wsola_init leaves in a new state
WsolaFresh(state) ==
    /\ state.input_buffer_content = 0
    /\ state.input_ring_buffer_stream_start_offset = 0
    /\ state.next_ideal_input_frame_start_sample_offset = 0
    /\ state.output_overlap_add_buffer = Zeros(state.overlap_samples)
    /\ state.total_output_samples_generated = 0

\* C8: from a track load until the first block of the track is processed,
\* the FIR history is zero with index 0 and the WSOLA state is absent or
\* as wsola_init leaves it
C8_TrackLoadResetsState ==
    track_fresh => (fir = FirZero /\ (wsola_state = NULL \/ WsolaFresh(wsola_state)))

\* C8 witness: the second track, just loaded at a speed other than 1.0,
\* about to have its first block read
C8_SecondTrackLoaded ==
    /\ track_fresh /\ current_track_idx = 1 /\ pc = "read"
    /\ wsola_state # NULL /\ wsola_state.current_speed_factor # 2

\* C9: after a track change, a change to another preset, a pause or a
\* resume, and until the next sample is filtered, the FIR history is zero
\* with write index 0
C9_ContinuityBreakResetsFir ==
    fir_event # "none" => fir = FirZero

\* C9 witness: a second preset change, after blocks were filtered with a
\* preset that keeps history
C9_PresetChangedMidStream ==
    /\ fir_event = "eq" /\ current_eq_idx = 2 /\ ctrl_count = 2 /\ fpos > 0

\* C10 as amended: the ring never starts after the earliest sample the
\* next search can need, next_ideal - S_w clamped at stream position 0
C10_RingKeepsSearchWindow ==
    wsola_state # NULL =>
        wsola_state.input_ring_buffer_stream_start_offset <=
            MAX(0, wsola_state.next_ideal_input_frame_start_sample_offset
                   - wsola_state.search_window_samples)

\* C10 witness: data was discarded from the ring inside wsola_process
C10_RingDiscarded ==
    /\ wsola_state # NULL /\ pc = "wsola"
    /\ wsola_state.input_ring_buffer_stream_start_offset > 0
    /\ Len(wsola_out) > 0

\* C10 as stated: stream_start_offset <= next_ideal - S_w, from the fresh
\* state onward
C10_RingStartBelowSearchWindow ==
    wsola_state # NULL =>
        wsola_state.input_ring_buffer_stream_start_offset <=
            wsola_state.next_ideal_input_frame_start_sample_offset
            - wsola_state.search_window_samples

\* -------------------------------------------- wsola_process as a function
\* a loop that would stop after its first iteration
WsolaLoopOnce(state, out, max_output_samples) ==
    IF /\ WsolaLoopCanRun(state, Len(out), max_output_samples)
       /\ GetSegmentOk(state, state.analysis_frame_samples)
    THEN WsolaIteration(state, 0, out)
    ELSE [state |-> state, out |-> out]

\* the while loop of wsola_process run to its end from state with out
\* written so far.  The offset of every iteration is taken as 0: neither the
\* advance nor the discards nor the loop guard read the offset, so the
\* number of iterations is the same for every offset the search returns.
RECURSIVE WsolaLoop(_, _, _)
WsolaLoop(state, out, max_output_samples) ==
    IF /\ WsolaLoopCanRun(state, Len(out), max_output_samples)
       /\ GetSegmentOk(state, state.analysis_frame_samples)
    THEN LET r == WsolaIteration(state, 0, out)
         IN WsolaLoop(r.state, r.out, max_output_samples)
    ELSE [state |-> state, out |-> out]

\* wsola_process(state, input_samples, n, output_buffer, max_output_samples):
\* the state it leaves and the samples it wrote
wsola_process(state, input_samples, max_output_samples) ==
    LET pushed == wsola_add_input_to_ring_buffer(state, input_samples, 1)
        r == WsolaLoop(pushed, <<>>, max_output_samples)
    IN [state |-> WsolaAfterLoop(r.state, Len(r.out)), out |-> r.out]

\* a signal fed to wsola_process block by block as main does it, from
\* sample pos on: blocks of ChunkSamples (the last one shorter), each with
\* the output room main allocates; the outputs of the calls concatenated
RECURSIVE WsolaStream(_, _, _, _)
WsolaStream(state, signal, pos, out) ==
    IF pos > Len(signal) THEN [state |-> state, out |-> out]
    ELSE LET n == MIN(ChunkSamples, Len(signal) - pos + 1)
             r == wsola_process(state, SubSeq(signal, pos, pos + n - 1),
                                2 * n + state.analysis_frame_samples)
         IN WsolaStream(r.state, signal, pos + n, out \o r.out)

\* a fresh WSOLA modifier for a mono stream at the speed of speed_idx
FreshWsola(speed_idx) ==
    wsola_init(SampleRate, 1, SpeedX2(speed_idx), DEFAULT_ANALYSIS_FRAME_MS,
               DEFAULT_OVERLAP_PERCENTAGE, DEFAULT_SEARCH_WINDOW_MS)

\* ------------------------------------------------ wsola_process driven alone
\* number of calls of wsola_process made on one WSOLA state
MaxRingCalls == 3

\* the block lengths the calls are made with: one sample, a short chunk,
\* a chunk, two chunks at once
RingInputLengths == {1, ChunkSamples - 1, ChunkSamples, 2 * ChunkSamples}

\* the values of max_output_samples the calls are made with: room for no
\* frame, for one, for two, and the size main allocates for a chunk
RingMaxOutputs(state) ==
    {1, state.overlap_samples, 2 * state.overlap_samples,
     2 * ChunkSamples + state.analysis_frame_samples}

\* a WSOLA state as wsola_init returns it for a mono stream, fed from one
\* source; fpos counts the samples handed to wsola_process so far
RingInit ==
    /\ tracks = <<[num_channels |-> 1, len |-> 2 * MaxRingCalls * ChunkSamples]>>
    /\ pc = "ctrl"
    /\ current_track_idx = 0
    /\ fpos = 0
    /\ playback_paused = FALSE
    /\ pcm_paused = FALSE
    /\ current_speed_idx \in 0..(NUM_SPEED_LEVELS - 1)
    /\ current_eq_idx = INITIAL_EQ_IDX
    /\ fir = initialize_fir_history
    /\ wsola_state = wsola_init(SampleRate, 1, SpeedX2(current_speed_idx),
                                DEFAULT_ANALYSIS_FRAME_MS, DEFAULT_OVERLAP_PERCENTAGE,
                                DEFAULT_SEARCH_WINDOW_MS)
    /\ read_ret = 0
    /\ src_block = <<>>
    /\ wsola_out = <<>>
    /\ max_wsola_output_samples = 0
    /\ payload = <<>>
    /\ ptr_to_write = 0
    /\ remaining_frames_to_write = 0
    /\ sink_block = <<>>
    /\ last_write = "none"
    /\ exit_status = <<>>
    /\ write_error = FALSE
    /\ track_fresh = TRUE
    /\ fir_event = "track"
    /\ ctrl_count = 0
    /\ alloc_failures = {}
    /\ scratch = NoScratch
    /\ SearchStaticsInit

\* wsola_process(state, input_samples, n, output_buffer, m) is entered with
\* n > 0 and m > 0: the input is pushed into the ring
RingProcessCall ==
    /\ pc = "ctrl" /\ ctrl_count < MaxRingCalls
    /\ \E n \in RingInputLengths, m \in RingMaxOutputs(wsola_state) :
          LET input_samples == [i \in 1..n |-> FileSample(0, fpos + i - 1)]
          IN /\ wsola_state' = wsola_add_input_to_ring_buffer(wsola_state, input_samples, 1)
             /\ src_block' = input_samples
             /\ read_ret' = n
             /\ fpos' = fpos + n
             /\ max_wsola_output_samples' = m
    /\ wsola_out' = <<>>
    /\ ctrl_count' = ctrl_count + 1
    /\ pc' = "wsola"
    /\ UNCHANGED <<tracks, current_track_idx, playback_paused, pcm_paused,
                   current_speed_idx, current_eq_idx, fir, payload, ptr_to_write,
                   remaining_frames_to_write, sink_block, last_write, exit_status,
                   write_error, track_fresh, fir_event>>
    /\ UNCHANGED alloc_failures
    /\ UNCHANGED scratch
    /\ UNCHANGED search_vars

\* wsola_process leaves its loop and returns output_samples_written
RingProcessReturn ==
    /\ pc = "wsola"
    /\ ~WsolaIterates
    /\ wsola_state' = WsolaAfterLoop(wsola_state, Len(wsola_out))
    /\ wsola_out' = <<>>
    /\ max_wsola_output_samples' = 0
    /\ src_block' = <<>>
    /\ read_ret' = 0
    /\ pc' = "ctrl"
    /\ UNCHANGED <<tracks, current_track_idx, fpos, playback_paused, pcm_paused,
                   current_speed_idx, current_eq_idx, fir, payload, ptr_to_write,
                   remaining_frames_to_write, sink_block, last_write, exit_status,
                   write_error, track_fresh, fir_event, ctrl_count>>
    /\ UNCHANGED alloc_failures
    /\ UNCHANGED scratch
    /\ UNCHANGED search_vars

\* the caller sets another speed factor between two calls
RingSpeedChange ==
    /\ pc = "ctrl"
    /\ \E new_idx \in 0..(NUM_SPEED_LEVELS - 1) :
          /\ new_idx # current_speed_idx
          /\ current_speed_idx' = new_idx
          /\ wsola_state' = SpeedChangeWsola(wsola_state, new_idx)
    /\ UNCHANGED <<pc, tracks, current_track_idx, fpos, playback_paused, pcm_paused,
                   current_eq_idx, fir, exit_status, write_error, track_fresh, fir_event,
                   ctrl_count>>
    /\ UNCHANGED iter_vars
    /\ UNCHANGED scratch
    /\ UNCHANGED search_vars

RingNext ==
    \/ RingProcessCall
    \/ WsolaIter
    \/ RingProcessReturn
    \/ RingSpeedChange

RingSpec == RingInit /\ [][RingNext]_vars

\* ------------------------------------------ two WSOLA modifiers in a row
\* the longest signal sent through the two modifiers
MaxSignalLen == 96

SPEED_IDX_20X == 3

SPEED_IDX_05X == 0

\* a signal of any length up to MaxSignalLen (tracks[1].len samples of
\* FileSample) is about to go through a fresh modifier at 2.0x; payload
\* collects what that modifier puts out, sink_block what the second one does
RoundTripInit ==
    /\ \E L \in 1..MaxSignalLen : tracks = <<[num_channels |-> 1, len |-> L]>>
    /\ pc = "read"
    /\ current_track_idx = 0
    /\ fpos = 0
    /\ playback_paused = FALSE
    /\ pcm_paused = FALSE
    /\ current_speed_idx = SPEED_IDX_20X
    /\ current_eq_idx = INITIAL_EQ_IDX
    /\ fir = initialize_fir_history
    /\ wsola_state = FreshWsola(SPEED_IDX_20X)
    /\ read_ret = 0
    /\ src_block = <<>>
    /\ wsola_out = <<>>
    /\ max_wsola_output_samples = 0
    /\ payload = <<>>
    /\ ptr_to_write = 0
    /\ remaining_frames_to_write = 0
    /\ sink_block = <<>>
    /\ last_write = "none"
    /\ exit_status = <<>>
    /\ write_error = FALSE
    /\ track_fresh = TRUE
    /\ fir_event = "track"
    /\ ctrl_count = 0
    /\ alloc_failures = {}
    /\ scratch = NoScratch
    /\ SearchStaticsInit

\* the next block of the signal goes through wsola_process of the first
\* modifier, with the output room main gives it
RoundTripFirstCall ==
    /\ pc = "read"
    /\ NextReadRet > 0
    /\ LET r == wsola_process(wsola_state, ReadSamples,
                              2 * NextReadRet + wsola_state.analysis_frame_samples)
       IN /\ wsola_state' = r.state
          /\ wsola_out' = r.out
          /\ payload' = payload \o r.out
    /\ src_block' = ReadSamples
    /\ read_ret' = NextReadRet
    /\ max_wsola_output_samples' = 2 * NextReadRet + wsola_state.analysis_frame_samples
    /\ fpos' = fpos + NextReadRet
    /\ UNCHANGED <<pc, tracks, current_track_idx, playback_paused, pcm_paused,
                   current_speed_idx, current_eq_idx, fir, ptr_to_write,
                   remaining_frames_to_write, sink_block, last_write, exit_status,
                   write_error, track_fresh, fir_event, ctrl_count>>
    /\ UNCHANGED alloc_failures
    /\ UNCHANGED scratch
    /\ UNCHANGED search_vars

\* the signal has ended: a fresh modifier at 0.5x takes over, its input is
\* the output of the first from its first sample (ptr_to_write counts the
\* samples handed on)
RoundTripSecondInit ==
    /\ pc = "read"
    /\ NextReadRet = 0
    /\ current_speed_idx' = SPEED_IDX_05X
    /\ wsola_state' = FreshWsola(SPEED_IDX_05X)
    /\ ptr_to_write' = 0
    /\ src_block' = <<>>
    /\ read_ret' = 0
    /\ wsola_out' = <<>>
    /\ max_wsola_output_samples' = 0
    /\ pc' = "write"
    /\ UNCHANGED <<tracks, current_track_idx, fpos, playback_paused, pcm_paused,
                   current_eq_idx, fir, payload, remaining_frames_to_write, sink_block,
                   last_write, exit_status, write_error, track_fresh, fir_event, ctrl_count>>
    /\ UNCHANGED alloc_failures
    /\ UNCHANGED scratch
    /\ UNCHANGED search_vars

\* the next block of the first modifier's output goes through wsola_process
\* of the second
RoundTripSecondCall ==
    /\ pc = "write"
    /\ ptr_to_write < Len(payload)
    /\ LET n == MIN(ChunkSamples, Len(payload) - ptr_to_write)
           input_samples == SubSeq(payload, ptr_to_write + 1, ptr_to_write + n)
           r == wsola_process(wsola_state, input_samples,
                              2 * n + wsola_state.analysis_frame_samples)
       IN /\ wsola_state' = r.state
          /\ wsola_out' = r.out
          /\ sink_block' = sink_block \o r.out
          /\ src_block' = input_samples
          /\ read_ret' = n
          /\ max_wsola_output_samples' = 2 * n + wsola_state.analysis_frame_samples
          /\ ptr_to_write' = ptr_to_write + n
    /\ UNCHANGED <<pc, tracks, current_track_idx, fpos, playback_paused, pcm_paused,
                   current_speed_idx, current_eq_idx, fir, payload,
                   remaining_frames_to_write, last_write, exit_status, write_error,
                   track_fresh, fir_event, ctrl_count>>
    /\ UNCHANGED alloc_failures
    /\ UNCHANGED scratch
    /\ UNCHANGED search_vars

\* the second modifier has taken all of its input
RoundTripEnd ==
    /\ pc = "write"
    /\ ptr_to_write = Len(payload)
    /\ pc' = "exit"
    /\ UNCHANGED <<tracks, current_track_idx, fpos, playback_paused, pcm_paused,
                   current_speed_idx, current_eq_idx, fir, wsola_state, exit_status,
                   write_error, track_fresh, fir_event, ctrl_count>>
    /\ UNCHANGED iter_vars
    /\ UNCHANGED scratch
    /\ UNCHANGED search_vars

RoundTripNext ==
    \/ RoundTripFirstCall
    \/ RoundTripSecondInit
    \/ RoundTripSecondCall
    \/ RoundTripEnd

RoundTripSpec == RoundTripInit /\ [][RoundTripNext]_vars

\* ------------------------------------------- wsola_init with any arguments
\* the speed index main starts with in this run: 1.5x
INIT_RUN_SPEED_IDX == 2

\* the arguments main passes to wsola_init for a mono S16_LE file
DefaultInitArgs ==
    [sample_rate |-> SampleRate, num_channels |-> 1,
     speed_x2 |-> SpeedX2(INIT_RUN_SPEED_IDX),
     analysis_frame_ms |-> DEFAULT_ANALYSIS_FRAME_MS,
     overlap_percentage |-> DEFAULT_OVERLAP_PERCENTAGE,
     search_window_ms |-> DEFAULT_SEARCH_WINDOW_MS]

\* the argument lists wsola_init is called with: main's, and main's with one
\* argument replaced (a sample rate of 40 gives a frame of one sample)
InitArgChoices ==
    {DefaultInitArgs}
    \cup {[DefaultInitArgs EXCEPT !.sample_rate = v] : v \in {-1, 0, 20, 40}}
    \cup {[DefaultInitArgs EXCEPT !.num_channels = v] : v \in {0, 2}}
    \cup {[DefaultInitArgs EXCEPT !.speed_x2 = v] : v \in {0}}
    \cup {[DefaultInitArgs EXCEPT !.analysis_frame_ms = v] : v \in {-1, 0}}
    \cup {[DefaultInitArgs EXCEPT !.overlap_percentage = v] : v \in {-1, 0, 99, 100, 150}}
    \cup {[DefaultInitArgs EXCEPT !.search_window_ms = v] : v \in {-1, 0}}

\* main is about to call wsola_init for its one mono file; the arguments of
\* the call are kept beside the header of the file
WsolaInitRunInit ==
    /\ \E a \in InitArgChoices :
          tracks = <<[num_channels |-> 1, len |-> 3 * ChunkSamples, init_args |-> a]>>
    /\ pc = "init"
    /\ current_track_idx = 0
    /\ fpos = 0
    /\ playback_paused = FALSE
    /\ pcm_paused = FALSE
    /\ current_speed_idx = INIT_RUN_SPEED_IDX
    /\ current_eq_idx = INITIAL_EQ_IDX
    /\ fir = initialize_fir_history
    /\ wsola_state = NULL
    /\ read_ret = 0
    /\ src_block = <<>>
    /\ wsola_out = <<>>
    /\ max_wsola_output_samples = 0
    /\ payload = <<>>
    /\ ptr_to_write = 0
    /\ remaining_frames_to_write = 0
    /\ sink_block = <<>>
    /\ last_write = "none"
    /\ exit_status = <<>>
    /\ write_error = FALSE
    /\ track_fresh = TRUE
    /\ fir_event = "track"
    /\ ctrl_count = 0
    /\ alloc_failures = {}
    /\ scratch = NoScratch
    /\ SearchStaticsInit

\* the call of wsola_init: on failure *state_ptr is not assigned and
\* wsola_state stays NULL
WsolaInitCall ==
    /\ pc = "init"
    /\ LET a == wav_header.init_args
       IN wsola_state' = wsola_init(a.sample_rate, a.num_channels, a.speed_x2,
                                    a.analysis_frame_ms, a.overlap_percentage,
                                    a.search_window_ms)
    /\ pc' = "ctrl"
    /\ UNCHANGED <<tracks, current_track_idx, fpos, playback_paused, pcm_paused,
                   current_speed_idx, current_eq_idx, fir, exit_status, write_error,
                   track_fresh, fir_event, ctrl_count>>
    /\ UNCHANGED iter_vars
    /\ UNCHANGED scratch
    /\ UNCHANGED search_vars

\* the main loop on the one file, with speed keys, on a sink that takes
\* what it is given
WsolaInitRunNext ==
    \/ WsolaInitCall
    \/ NoInput
    \/ SpeedDown
    \/ SpeedUp
    \/ ReadEofStop
    \/ ProcessDirect
    \/ ProcessWsolaStart
    \/ WsolaIter
    \/ WsolaReturn
    \/ WriteAccept
    \/ IterationEnd

WsolaInitRunSpec == WsolaInitRunInit /\ [][WsolaInitRunNext]_vars

\* C11: after any sequence of pushes and discards the content count of the
\* ring buffer is at least 0 and at most the capacity
C11_ContentWithinCapacity ==
    /\ 0 <= wsola_state.input_buffer_content
    /\ wsola_state.input_buffer_content <= wsola_state.input_buffer_capacity

\* C11 witness: the ring is full after a push that overwrote old samples
C11_RingFullAfterOverwrite ==
    /\ wsola_state.input_buffer_content = wsola_state.input_buffer_capacity
    /\ wsola_state.input_ring_buffer_stream_start_offset
         > MAX(0, wsola_state.next_ideal_input_frame_start_sample_offset
                  - wsola_state.search_window_samples)

\* C12: in every step on the ring buffer the stream offset of the ring start
\* does not decrease and grows by exactly the number of samples the step
\* removed (content before + samples pushed - content after), so that
\* stream start offset + content is the number of samples ever pushed
C12_StartOffsetCountsRemoved ==
    [][LET pushed == fpos' - fpos
           removed == (wsola_state.input_buffer_content + pushed)
                      - wsola_state'.input_buffer_content
       IN /\ wsola_state'.input_ring_buffer_stream_start_offset
               >= wsola_state.input_ring_buffer_stream_start_offset
          /\ wsola_state'.input_ring_buffer_stream_start_offset
               - wsola_state.input_ring_buffer_stream_start_offset = removed
          /\ wsola_state'.input_ring_buffer_stream_start_offset
               + wsola_state'.input_buffer_content = fpos']_vars

\* C12 witness: more samples were pushed than the ring holds, and samples
\* were removed from it
C12_SamplesRemoved ==
    /\ pc = "ctrl"
    /\ fpos > wsola_state.input_buffer_capacity
    /\ wsola_state.input_ring_buffer_stream_start_offset > 0
    /\ wsola_state.input_buffer_content < wsola_state.input_buffer_capacity

\* C13: get_segment_from_ring_buffer fails for every length above the
\* content count; and when wsola_process runs an iteration, for every start
\* index the search passes (length N_o) and wsola_process passes (length N)
\* with which the extraction succeeds, every slot read lies among the
\* content-count slots that start at the read position
C13_SegmentReadsValidSlots ==
    /\ wsola_state # NULL =>
          \A length \in 1..(wsola_state.input_buffer_capacity + 1) :
              length > wsola_state.input_buffer_content => ~GetSegmentOk(wsola_state, length)
    /\ (pc = "wsola" /\ WsolaIterates) =>
          /\ \A start \in SearchCandidateStarts(wsola_state) :
                GetSegmentOk(wsola_state, wsola_state.overlap_samples) =>
                   SegmentSlots(wsola_state, start, wsola_state.overlap_samples)
                      \subseteq ValidSlots(wsola_state)
          /\ \A start \in SynthesisSegmentStarts(wsola_state) :
                GetSegmentOk(wsola_state, wsola_state.analysis_frame_samples) =>
                   SegmentSlots(wsola_state, start, wsola_state.analysis_frame_samples)
                      \subseteq ValidSlots(wsola_state)

\* what a WSOLA state holds apart from the speed setting: ring, overlap
\* buffer and counters
WsolaData(state) ==
    IF state = NULL THEN NULL
    ELSE [state EXCEPT !.current_speed_factor = 0, !.synthesis_hop_samples = 0]

\* C14: playback is paused only at the head of the loop; an iteration that is
\* paused when it reaches the pause gate goes back to the head of the loop
\* with the source position, the block read, the WSOLA output, the payload
\* and the sink untouched, the FIR history kept or cleared (never run) and
\* the WSOLA ring and counters kept; and when no control character was read
\* in it, source position, FIR history and WSOLA state are unchanged
C14_PausedIterationIdle ==
    [][/\ playback_paused => pc = "ctrl"
       /\ (pc = "ctrl" /\ playback_paused') =>
              /\ pc' = "ctrl"
              /\ UNCHANGED <<fpos, read_ret, src_block, wsola_out, payload, ptr_to_write,
                             remaining_frames_to_write, sink_block, last_write>>
              /\ fir' \in {fir, initialize_fir_history}
              /\ WsolaData(wsola_state') = WsolaData(wsola_state)
              /\ (ctrl_count' = ctrl_count => UNCHANGED <<fpos, fir, wsola_state>>)]_vars

\* C14 witness: paused in the middle of a track, and a speed key was
\* handled while paused
C14_PausedMidTrack ==
    /\ playback_paused /\ pc = "ctrl"
    /\ fpos > 0 /\ fir_event = "pause"
    /\ current_speed_idx # INITIAL_SPEED_IDX

\* C15: playback does not stop where the data of a track ends while tracks
\* remain after it: whenever main has left its loop without a write error,
\* whatever the length of the tracks, the current track is the last of the
\* playlist
C15_DataEndAdvancesTrack ==
    (pc = "exit" /\ ~write_error) => current_track_idx = num_music_files - 1

\* the samples in the ring that lie past the end of the last synthesis
\* segment wsola_process extracted, when its last call ran an iteration:
\* that segment began at most search_window_samples after the ideal offset
\* of its iteration, which the advance by round(H_a / speed) has left behind
UnplayedAtStop ==
    IF UseWsola /\ Len(wsola_out) > 0
    THEN LET advance == RoundDiv(2 * wsola_state.analysis_hop_samples,
                                 wsola_state.current_speed_factor)
             last_segment_end == wsola_state.next_ideal_input_frame_start_sample_offset
                                 - advance + wsola_state.search_window_samples
                                 + wsola_state.analysis_frame_samples
             latest_available == wsola_state.input_ring_buffer_stream_start_offset
                                 + wsola_state.input_buffer_content
         IN MAX(0, latest_available - last_segment_end)
    ELSE 0

\* C16: when main has stopped after a last read that was short but held at
\* least one whole frame, the payload made from it was written to the sink
\* in full, and no sample pushed into the WSOLA ring lies past everything
\* that went into the output
C16_LastPartialBlockPlayed ==
    (/\ pc = "exit" /\ ~write_error
     /\ read_ret < ChunkSamples
     /\ read_ret \div wav_header.num_channels > 0)
    => /\ remaining_frames_to_write = 0
       /\ sink_block = payload
       /\ UnplayedAtStop = 0

\* the samples of channel c (0 = left, 1 = right) of an interleaved block
ChannelSamples(block, c, num_channels) ==
    [k \in 1..(Len(block) \div num_channels) |-> block[(k - 1) * num_channels + c + 1]]

\* the interleaved stereo blocks that carry the left channel of block and
\* another right channel
RightChannelVariants(block) ==
    {[i \in 1..Len(block) |-> IF (i - 1) % 2 = 0 THEN block[i] ELSE v] : v \in {0, 1000}}

\* C17: when a stereo block is about to go through the EQ stage, the left
\* channel of what apply_fir_filter puts out is the same for every block
\* that has the same left channel samples, whatever its right channel holds
C17_ChannelOutputFromOwnSamples ==
    (/\ pc = "read" /\ wav_header.num_channels = 2
     /\ NextReadRet \div wav_header.num_channels > 0)
    => \A other \in RightChannelVariants(ReadSamples) :
          ChannelSamples(apply_fir_filter(fir, other, EQ_PRESETS(current_eq_idx)).out, 0, 2)
          = ChannelSamples(apply_fir_filter(fir, ReadSamples, EQ_PRESETS(current_eq_idx)).out, 0, 2)

\* C18: when wsola_process returned 0 samples for the block of this
\* iteration, the pipeline has nothing to write: no payload is made from
\* the block and the sink receives nothing in this iteration
C18_NoWsolaOutputNothingWritten ==
    (pc = "write" /\ UseWsola /\ Len(wsola_out) = 0)
    => (payload = <<>> /\ sink_block = <<>>)

\* the newest length samples of the ring, oldest first: the slots before
\* input_buffer_write_pos
RingNewest(state, length) ==
    [i \in 1..length |->
        state.input_buffer_ring[((state.input_buffer_write_pos - length + (i - 1)
                                   + state.input_buffer_capacity)
                                  % state.input_buffer_capacity) + 1]]

\* C19: when a block was read at speed 1.0 while a WSOLA state exists, the
\* block is in the ring as its newest samples and the stream offsets count
\* it: ring start offset + content is at least the block length
C19_UnitSpeedBlockPushed ==
    (/\ pc = "write" /\ wsola_state # NULL
     /\ SpeedX2(current_speed_idx) = 2 /\ read_ret > 0)
    => /\ wsola_state.input_buffer_content >= read_ret
       /\ wsola_state.input_ring_buffer_stream_start_offset
            + wsola_state.input_buffer_content >= read_ret
       /\ RingNewest(wsola_state, read_ret) = src_block

\* the input advance of one iteration of wsola_process at the speed of
\* speed_idx: round(H_a / speed)
IterationAdvance(speed_idx) ==
    RoundDiv(2 * FreshWsola(speed_idx).analysis_hop_samples, SpeedX2(speed_idx))

\* the length the transients may take away or add: four analysis frames
RoundTripTransient == 4 * FreshWsola(SPEED_IDX_20X).analysis_frame_samples

\* C20: a signal of length L sent through a fresh modifier at 2.0x and its
\* output through a fresh modifier at 0.5x comes out with a length within
\* four frames of L * N_o^2 / (round(H_a / 2.0) * round(H_a / 0.5)): every
\* iteration puts out N_o samples and advances by the rounded hop
C20_RoundTripLengthScaledByHops ==
    pc = "exit" =>
       LET N_o == FreshWsola(SPEED_IDX_20X).overlap_samples
           hops == IterationAdvance(SPEED_IDX_20X) * IterationAdvance(SPEED_IDX_05X)
       IN Abs(Len(sink_block) * hops - wav_header.len * N_o * N_o)
            <= RoundTripTransient * hops

\* C20 witness: a signal of many frames has gone through both modifiers
C20_LongSignalDone ==
    /\ pc = "exit"
    /\ wav_header.len = MaxSignalLen
    /\ Len(sink_block) > 2 * RoundTripTransient

\* C20 as stated: the length after both modifiers is within four frames
\* of L
C20_RoundTripRestoresLength ==
    pc = "exit" => Abs(Len(sink_block) - wav_header.len) <= RoundTripTransient

\* the configurations C21 calls invalid: sample rate or frame length not
\* positive, channel count other than 1, overlap fraction outside [0, 1),
\* derived overlap not smaller than the frame length
InvalidInitArgs(a) ==
    LET N == (a.sample_rate * a.analysis_frame_ms) \div 1000
        N_o == IF N = 1 THEN 1 ELSE N \div 2
    IN \/ a.sample_rate <= 0
       \/ a.analysis_frame_ms <= 0 \/ N <= 0
       \/ a.num_channels # 1
       \/ a.overlap_percentage < 0 \/ a.overlap_percentage >= 100
       \/ N_o >= N

\* C21: once wsola_init has been called with an invalid configuration the
\* state handle is absent, wsola_process is never entered, and every block
\* that reaches the write loop is the one the stage without WSOLA makes
C21_InvalidConfigDisablesWsola ==
    (pc # "init" /\ InvalidInitArgs(wav_header.init_args))
    => /\ wsola_state = NULL
       /\ pc # "wsola"
       /\ pc = "write" =>
             payload = SpeedStageFallback(src_block, read_ret \div wav_header.num_channels,
                                          wav_header.num_channels,
                                          SpeedX2(current_speed_idx))

\* C21 witness: wsola_init rejected an overlap fraction of 1.0 and the file
\* was played to its end
C21_PlayedWithoutWsola ==
    /\ pc = "exit" /\ ~write_error
    /\ wav_header.init_args.overlap_percentage = 100
    /\ wsola_state = NULL
    /\ fpos = wav_header.len

\* ---- the main loop with mallocs that can return NULL
\* the EQ stage of one block: with no output buffer apply_fir_filter is not
\* called and the speed stage reads buff
AllocEqStage(failed) ==
    IF "eq" \in failed
    THEN [out |-> ReadSamples, fir |-> fir]
    ELSE apply_fir_filter(fir, ReadSamples, EQ_PRESETS(current_eq_idx))

\* a speed stage that hands its source on whenever WSOLA did not deliver
SpeedStageAllocPassThrough(source, frames_read_this_iteration, num_channels, speed_x2, failed) ==
    SubSeq(source, 1, frames_read_this_iteration * num_channels)

\* the speed stage when WSOLA did not deliver the buffer: without a buffer
\* for the simple speed change the source is played as it is
SpeedStageAlloc(source, frames_read_this_iteration, num_channels, speed_x2, failed) ==
    IF speed_x2 # 2 /\ "simple" \in failed
    THEN SubSeq(source, 1, frames_read_this_iteration * num_channels)
    ELSE SpeedStageFallback(source, frames_read_this_iteration, num_channels, speed_x2)

\* one mono file, played from its start
AllocInit ==
    /\ Init
    /\ tracks = <<[num_channels |-> 1, len |-> MaxTrackChunks * ChunkSamples]>>

\* a block was read and wsola_process is not called: WSOLA is not in use, or
\* its output buffer was not allocated (use_wsola = false for this chunk)
AllocProcessDirect ==
    /\ pc = "read"
    /\ NextReadRet \div wav_header.num_channels > 0
    /\ \E failed \in SUBSET {"eq", "wsola", "simple"} :
          /\ "wsola" \in failed => UseWsola
          /\ "simple" \in failed => SpeedX2(current_speed_idx) # 2
          /\ ~UseWsola \/ "wsola" \in failed
          /\ alloc_failures' = failed
          /\ LET eq == AllocEqStage(failed)
             IN /\ fir' = eq.fir
                /\ src_block' = eq.out
                /\ StartWrite(SpeedStageAlloc(eq.out, NextReadRet \div wav_header.num_channels,
                                              wav_header.num_channels,
                                              SpeedX2(current_speed_idx), failed))
          /\ scratch' = ScratchSimpleStage(ScratchEqStage(failed),
                                           SpeedX2(current_speed_idx), failed,
                                           Len(payload') \div wav_header.num_channels)
    /\ fpos' = fpos + NextReadRet
    /\ read_ret' = NextReadRet
    /\ track_fresh' = FALSE
    /\ fir_event' = "none"
    /\ UNCHANGED <<tracks, current_track_idx, playback_paused, pcm_paused,
                   current_speed_idx, current_eq_idx, wsola_state, exit_status,
                   write_error, ctrl_count, wsola_out, max_wsola_output_samples>>
    /\ UNCHANGED search_vars

\* a block was read, WSOLA is in use and its output buffer was allocated
AllocProcessWsolaStart ==
    /\ pc = "read"
    /\ NextReadRet \div wav_header.num_channels > 0
    /\ UseWsola
    /\ \E failed \in SUBSET {"eq"} :
          /\ alloc_failures' = failed
          /\ LET eq == AllocEqStage(failed)
             IN /\ fir' = eq.fir
                /\ src_block' = eq.out
                /\ wsola_state' = wsola_add_input_to_ring_buffer(wsola_state, eq.out, 1)
          /\ scratch' = ScratchWsolaStage(ScratchEqStage(failed))
    /\ max_wsola_output_samples' = 2 * NextReadRet + wsola_state.analysis_frame_samples
    /\ wsola_out' = <<>>
    /\ fpos' = fpos + NextReadRet
    /\ read_ret' = NextReadRet
    /\ track_fresh' = FALSE
    /\ fir_event' = "none"
    /\ pc' = "wsola"
    /\ UNCHANGED <<tracks, current_track_idx, playback_paused, pcm_paused,
                   current_speed_idx, current_eq_idx, exit_status, write_error,
                   ctrl_count, payload, ptr_to_write, remaining_frames_to_write,
                   sink_block, last_write>>
    /\ UNCHANGED search_vars

\* wsola_process returns; with 0 samples returned its buffer is freed and
\* the simple speed change allocates its own
AllocWsolaReturn ==
    /\ pc = "wsola"
    /\ ~WsolaIterates
    /\ wsola_state' = WsolaAfterLoop(wsola_state, Len(wsola_out))
    /\ IF Len(wsola_out) > 0
       THEN /\ StartWrite(wsola_out)
            /\ UNCHANGED alloc_failures
            /\ scratch' = ScratchWsolaOutput(scratch)
       ELSE \E failed \in SUBSET {"simple"} :
               /\ alloc_failures' = alloc_failures \cup failed
               /\ StartWrite(SpeedStageAlloc(src_block, read_ret \div wav_header.num_channels,
                                             wav_header.num_channels,
                                             SpeedX2(current_speed_idx), failed))
               /\ scratch' = ScratchSimpleStage(ScratchWsolaNoOutput(scratch),
                                                SpeedX2(current_speed_idx), failed,
                                                Len(payload') \div wav_header.num_channels)
    /\ UNCHANGED <<tracks, current_track_idx, fpos, playback_paused, pcm_paused,
                   current_speed_idx, current_eq_idx, fir, exit_status, write_error,
                   track_fresh, fir_event, ctrl_count, read_ret, src_block, wsola_out,
                   max_wsola_output_samples>>
    /\ UNCHANGED search_vars

AllocNext ==
    \/ NoInput
    \/ SpeedDown
    \/ SpeedUp
    \/ \E k \in 0..(NUM_EQ_PRESETS - 1) : SelectEq(k)
    \/ ReadEofStop
    \/ AllocProcessDirect
    \/ AllocProcessWsolaStart
    \/ WsolaIter
    \/ AllocWsolaReturn
    \/ WriteAccept
    \/ IterationEnd

AllocSpec == AllocInit /\ [][AllocNext]_vars

\* the processing of the block just read
BlockProcessed == pc = "read" /\ pc' \in {"wsola", "write"}

CORR_ONE == 10000

\* C integer division, b > 0: the quotient is truncated toward zero
TruncDiv(a, b) == IF a >= 0 THEN a \div b ELSE -((-a) \div b)

RECURSIVE SeqSum(_)
SeqSum(s) == IF s = <<>> THEN 0 ELSE Head(s) + SeqSum(Tail(s))

RECURSIVE ISqrtBetween(_, _, _)
ISqrtBetween(n, lo, hi) ==
    IF lo >= hi THEN lo
    ELSE LET mid == (lo + hi + 1) \div 2
         IN IF mid * mid <= n THEN ISqrtBetween(n, mid, hi) ELSE ISqrtBetween(n, lo, mid - 1)

\* sqrt() of a non-negative integer, rounded down
ISqrt(n) == ISqrtBetween(n, 0, MIN(n, 46340))

\* if (correlation > 1.0) correlation = 1.0; if (correlation < -1.0) correlation = -1.0;
ClampCorrelation(correlation) ==
    IF correlation > CORR_ONE THEN CORR_ONE
    ELSE IF correlation < -CORR_ONE THEN -CORR_ONE ELSE correlation

\* calculate_normalized_cross_correlation: the sums of the mean-centred
\* products are carried multiplied by length^2 (mean-centred sample i of
\* segment1 is (length * segment1[i] - sum1) / length), which leaves the
\* quotient and the energy ratio as they are
calculate_normalized_cross_correlation(segment1, segment2, length) ==
    IF length <= 0 THEN 0
    ELSE
    LET sum1 == SeqSum(SubSeq(segment1, 1, length))
        sum2 == SeqSum(SubSeq(segment2, 1, length))
        segments_identical == \A i \in 1..length : segment1[i] = segment2[i]
        energy == SeqSum([i \in 1..length |-> segment1[i] * segment1[i]])
        s1 == [i \in 1..length |-> length * segment1[i] - sum1]
        s2 == [i \in 1..length |-> length * segment2[i] - sum2]
        sum_s1s2 == SeqSum([i \in 1..length |-> s1[i] * s2[i]])
        sum_s1_sq == SeqSum([i \in 1..length |-> s1[i] * s1[i]])
        sum_s2_sq == SeqSum([i \in 1..length |-> s2[i] * s2[i]])
        denominator == ISqrt(sum_s1_sq * sum_s2_sq)
        correlation == ClampCorrelation(TruncDiv(Abs(sum_s1s2) * CORR_ONE, denominator)
                                        * (IF sum_s1s2 < 0 THEN -1 ELSE 1))
        smaller == MIN(sum_s1_sq, sum_s2_sq)
        larger == MAX(sum_s1_sq, sum_s2_sq)
    IN IF segments_identical
       THEN (IF energy < 100 * length THEN 0 ELSE 9999)
       ELSE IF sum_s1_sq < 100 * length * length \/ sum_s2_sq < 100 * length * length
       THEN 0
       ELSE IF 10 * smaller < 3 * larger
       THEN TruncDiv(correlation * ISqrt((smaller * 10000) \div larger), 100)
       ELSE correlation

\* 0.08f * expf(-4.0f * continuity_factor) for continuity_factor = k/20,
\* k = 0..40, rounded down
ExpContinuityBias ==
    <<800, 654, 536, 439, 359, 294, 240, 197, 161, 132, 108, 88, 72, 59, 48, 39, 32,
      26, 21, 17, 14, 11, 9, 8, 6, 5, 4, 3, 2, 2, 1, 1, 1, 1, 0, 0, 0, 0, 0, 0, 0>>

\* corr += continuity_bias; if (corr > 1.0f) corr = 1.0f;
BiasedScore(corr) == IF corr > CORR_ONE THEN CORR_ONE ELSE corr

\* the score of a candidate in the coarse pass
CoarseScore(ncc_value, offset, S_w, prev_offset, prev_correlation) ==
    LET distance == Abs(offset - prev_offset)
        continuity_bias == IF prev_correlation > 7000
                           THEN ExpContinuityBias[((distance * 20) \div S_w) + 1]
                           ELSE TruncDiv(400 * (S_w - distance), S_w)
    IN BiasedScore(ncc_value + continuity_bias)

\* the score of a candidate in the fine pass
FineScore(ncc_value, offset, S_w, prev_offset) ==
    BiasedScore(ncc_value + TruncDiv(200 * (S_w - Abs(offset - prev_offset)), S_w))

\* the result of a loop that goes through the offsets upward and keeps a
\* candidate only when its score is greater than the best so far, which
\* starts at -1.0f: the greatest score and the least offset that has it;
\* scored is the set of the candidates the loop evaluates, as <<offset,
\* score, correlation returned for the candidate>>
BestOf(scored) ==
    LET eligible == {c \in scored : c[2] > -CORR_ONE}
    IN IF eligible = {}
       THEN [found |-> FALSE, correlation |-> -CORR_ONE, offset |-> 0]
       ELSE LET best == CHOOSE c \in eligible :
                           \A q \in eligible :
                              q[2] < c[2] \/ (q[2] = c[2] /\ c[1] <= q[1])
            IN [found |-> TRUE, correlation |-> best[2], offset |-> best[1]]

\* a pass of the search: what it scored and what it kept
SearchPass(scored) == [scores |-> scored, best |-> BestOf(scored)]

\* a protection that would step past the new offset by half the jump
SmoothedOffsetPast(offset, prev_offset, prev_correlation, max_correlation_float, S_w) ==
    IF prev_correlation > 7000 /\ max_correlation_float > 1000
       /\ Abs(offset - prev_offset) > S_w \div 2
    THEN offset + TruncDiv(offset - prev_offset, 2)
    ELSE offset

\* the protection against extreme jumps
SmoothedOffset(offset, prev_offset, prev_correlation, max_correlation_float, S_w) ==
    IF prev_correlation > 7000 /\ max_correlation_float > 1000
       /\ Abs(offset - prev_offset) > S_w \div 2
    THEN prev_offset + TruncDiv(offset - prev_offset, 2)
    ELSE offset

\* the coarse pass: offsets -S_w, -S_w + step_size, ... up to S_w
CoarsePass(S_w, segment_ok, ncc, statics) ==
    LET step_size == MAX(1, S_w \div 10)
        coarse_offsets == IF segment_ok
                          THEN {o \in (-S_w)..S_w : (o + S_w) % step_size = 0}
                          ELSE {}
    IN SearchPass({<<o, CoarseScore(ncc[o], o, S_w, statics.previous_best_offset,
                                    statics.previous_correlation), ncc[o]>> :
                      o \in coarse_offsets})

\* the fine pass around the best offset of the coarse pass; the offsets
\* that are multiples of step_size are skipped
FinePass(S_w, segment_ok, ncc, statics, coarse) ==
    LET step_size == MAX(1, S_w \div 10)
        search_range == IF coarse.correlation > 8000 THEN step_size + 2 ELSE 2 * step_size
        fine_search_min == MAX(-S_w, coarse.offset - search_range)
        fine_search_max == MIN(S_w, coarse.offset + search_range)
        fine_offsets == IF coarse.found /\ segment_ok
                        THEN {o \in fine_search_min..fine_search_max : o % step_size # 0}
                        ELSE {}
    IN SearchPass({<<o, FineScore(ncc[o], o, S_w, statics.previous_best_offset), ncc[o]>> :
                      o \in fine_offsets})

\* a search whose first-frame branch would leave the statics as they are
SearchBranchesKeepingStatics(S_w, first_frame, segment_ok, ncc_raw, statics, coarse, fine) ==
    IF first_frame
    THEN [offset |-> 0,
          max_correlation_float |-> IF segment_ok THEN 9999 ELSE -CORR_ONE,
          returned |-> segment_ok, match_found |-> segment_ok,
          prev_offset |-> statics.previous_best_offset,
          prev_correlation |-> statics.previous_correlation]
    ELSE IF S_w <= 0
    THEN [offset |-> 0,
          max_correlation_float |-> IF segment_ok THEN ncc_raw[0] ELSE -CORR_ONE,
          returned |-> segment_ok, match_found |-> segment_ok,
          prev_offset |-> statics.previous_best_offset,
          prev_correlation |-> statics.previous_correlation]
    ELSE [offset |-> fine.best.offset, max_correlation_float |-> fine.best.correlation,
          returned |-> fine.best.found, match_found |-> coarse.best.found,
          prev_offset |-> statics.previous_best_offset,
          prev_correlation |-> statics.previous_correlation]

\* the three branches of the search: the first frame, no search window,
\* and the two passes
SearchBranches(S_w, first_frame, segment_ok, ncc_raw, statics, coarse, fine) ==
    IF first_frame
    THEN IF segment_ok
         THEN [offset |-> 0, max_correlation_float |-> 9999, returned |-> TRUE,
               match_found |-> TRUE, prev_offset |-> 0, prev_correlation |-> 9999]
         ELSE [offset |-> 0, max_correlation_float |-> -CORR_ONE, returned |-> FALSE,
               match_found |-> FALSE,
               prev_offset |-> statics.previous_best_offset,
               prev_correlation |-> statics.previous_correlation]
    ELSE IF S_w <= 0
    THEN [offset |-> 0,
          max_correlation_float |-> IF segment_ok THEN ncc_raw[0] ELSE -CORR_ONE,
          returned |-> segment_ok, match_found |-> segment_ok,
          prev_offset |-> statics.previous_best_offset,
          prev_correlation |-> statics.previous_correlation]
    ELSE [offset |-> fine.best.offset, max_correlation_float |-> fine.best.correlation,
          returned |-> fine.best.found, match_found |-> coarse.best.found,
          prev_offset |-> statics.previous_best_offset,
          prev_correlation |-> statics.previous_correlation]

\* the handling of low correlations, the jump protection and the update
\* of the statics, after the branch that ran left `searched`
SearchFinish(S_w, segment_ok, ncc_raw, statics, searched, scores) ==
    LET low == ~searched.match_found \/ searched.max_correlation_float < 1000
        consecutive == IF low THEN statics.consecutive_low_correlations + 1 ELSE 0
        variation_limit == MAX(1, S_w \div 10)
        min_offset == MAX(-S_w, searched.prev_offset - variation_limit)
        max_offset == MIN(S_w, searched.prev_offset + variation_limit)
        stride == MAX(1, variation_limit \div 2)
        test_offsets == IF segment_ok
                        THEN {o \in min_offset..max_offset : (o - min_offset) % stride = 0}
                        ELSE {}
        emergency == BestOf({<<o, ncc_raw[o], ncc_raw[o]>> : o \in test_offsets})
        constrained_offset ==
            IF consecutive < 5
            THEN TruncDiv(searched.offset + searched.prev_offset * 3, 4)
            ELSE IF emergency.found THEN emergency.offset ELSE searched.prev_offset
        after_fallback == IF low /\ consecutive > 2 THEN constrained_offset ELSE searched.offset
        final == SmoothedOffset(after_fallback, searched.prev_offset, searched.prev_correlation,
                                searched.max_correlation_float, S_w)
    IN [called |-> TRUE,
        offset |-> final,
        max_correlation_float |-> searched.max_correlation_float,
        returned |-> searched.returned,
        previous_best_offset |-> final,
        previous_correlation |-> searched.max_correlation_float,
        consecutive_low_correlations |-> consecutive,
        searched_offset |-> searched.offset,
        after_fallback |-> after_fallback,
        scores |-> scores]

\* find_best_match_segment with the passes made
SearchWithPasses(S_w, first_frame, segment_ok, ncc_raw, statics, coarse, fine) ==
    SearchFinish(S_w, segment_ok, ncc_raw, statics,
                 SearchBranches(S_w, first_frame, segment_ok, ncc_raw, statics, coarse, fine),
                 IF first_frame \/ S_w <= 0
                 THEN [coarse |-> {}, fine |-> {}, coarse_best |-> BestOf({})]
                 ELSE [coarse |-> coarse.scores, fine |-> fine.scores,
                       coarse_best |-> coarse.best])

\* find_best_match_segment after its coarse pass
SearchAfterCoarse(S_w, first_frame, segment_ok, ncc, ncc_raw, statics, coarse) ==
    SearchWithPasses(S_w, first_frame, segment_ok, ncc_raw, statics, coarse,
                     FinePass(S_w, segment_ok, ncc, statics, coarse.best))

\* find_best_match_segment.  S_w and first_frame come from the state
\* (search_window_samples, total_output_samples_generated == 0), segment_ok
\* is what get_segment_from_ring_buffer returns for N_o samples, ncc[o] is
\* the correlation of the target with the windowed candidate at offset o
\* and ncc_raw[o] the one with the candidate as it is in the ring; statics
\* holds the three static variables.  The result carries the offset and
\* correlation handed back, whether a correlation other than -LLONG_MAX is
\* returned, the statics after the call, and what the passes scored
find_best_match_segment(S_w, first_frame, segment_ok, ncc, ncc_raw, statics) ==
    SearchAfterCoarse(S_w, first_frame, segment_ok, ncc, ncc_raw, statics,
                      CoarsePass(MAX(S_w, 1), segment_ok, ncc, statics))

\* ---- find_best_match_segment driven alone
\* the search window, in ms, of the WSOLA state the search is run on: at
\* SampleRate it gives 20 samples, the least window whose coarse step is 2
SEARCH_RUN_WINDOW_MS == 100

\* the consecutive low correlations the runs go up to
MaxConsecutiveLow == 6

\* the overlap buffers the search is called with: a pulse and silence
SearchTargets == {<<15, 0, 0>>, <<0, 0, 0>>}

\* the candidates found in the ring, before the window is applied: the
\* pulse inverted, the pulse as it is, half of it, and one unlike it
SearchSegments == {<<0, 42, 16>>, <<0, -42, -16>>, <<0, -42, 0>>, <<0, 42, -16>>}

\* the offsets at which the ring holds a candidate unlike the others
SearchPeaks == {-20, -19, 1, 12}

\* the first N_o samples of a candidate under the analysis window
WindowedCandidate(state, candidate_segment) ==
    [k \in 1..state.overlap_samples |->
        (candidate_segment[k] * state.analysis_window_function[k]) \div 32768]

SearchStatics ==
    [previous_best_offset |-> previous_best_offset,
     previous_correlation |-> previous_correlation,
     consecutive_low_correlations |-> consecutive_low_correlations]

SearchInit ==
    /\ tracks = <<[num_channels |-> 1, len |-> 0]>>
    /\ pc = "wsola"
    /\ current_track_idx = 0
    /\ fpos = 0
    /\ playback_paused = FALSE
    /\ pcm_paused = FALSE
    /\ current_speed_idx = SPEED_IDX_20X
    /\ current_eq_idx = INITIAL_EQ_IDX
    /\ fir = initialize_fir_history
    /\ wsola_state = wsola_init(SampleRate, 1, SpeedX2(current_speed_idx),
                                DEFAULT_ANALYSIS_FRAME_MS, DEFAULT_OVERLAP_PERCENTAGE,
                                SEARCH_RUN_WINDOW_MS)
    /\ read_ret = 0
    /\ src_block = <<>>
    /\ wsola_out = <<>>
    /\ max_wsola_output_samples = 0
    /\ payload = <<>>
    /\ ptr_to_write = 0
    /\ remaining_frames_to_write = 0
    /\ sink_block = <<>>
    /\ last_write = "none"
    /\ exit_status = <<>>
    /\ write_error = FALSE
    /\ track_fresh = TRUE
    /\ fir_event = "track"
    /\ ctrl_count = 0
    /\ alloc_failures = {}
    /\ scratch = NoScratch
    /\ SearchStaticsInit

\* the correlations of the candidates of the window: one value at
\* peak_offset, another at every other offset
CandidateCorrelations(S_w, peak_offset, at_peak, elsewhere) ==
    [o \in (-S_w)..S_w |-> IF o = peak_offset THEN at_peak ELSE elsewhere]

\* find_best_match_segment returns r: the statics hold what it left
SearchReturns(r) ==
    /\ search_result' = r
    /\ previous_best_offset' = r.previous_best_offset
    /\ previous_correlation' = r.previous_correlation
    /\ consecutive_low_correlations' = r.consecutive_low_correlations

\* one call of find_best_match_segment from the loop of wsola_process: the
\* ring holds candidate `peak` at offset peak_offset and `others` at every
\* other offset of the window.  The loop guard has passed, so the ring
\* holds more than N_o samples and get_segment_from_ring_buffer succeeds
SearchCall ==
    /\ pc = "wsola"
    /\ consecutive_low_correlations < MaxConsecutiveLow
    /\ \E target \in SearchTargets, peak_offset \in SearchPeaks,
          peak \in SearchSegments, others \in SearchSegments :
          LET S_w == wsola_state.search_window_samples
              N_o == wsola_state.overlap_samples
              Ncc(c) == calculate_normalized_cross_correlation(
                            target, WindowedCandidate(wsola_state, c), N_o)
              NccRaw(c) == calculate_normalized_cross_correlation(target, c, N_o)
          IN SearchReturns(find_best_match_segment(
                 S_w, wsola_state.total_output_samples_generated = 0, TRUE,
                 CandidateCorrelations(S_w, peak_offset, Ncc(peak), Ncc(others)),
                 CandidateCorrelations(S_w, peak_offset, NccRaw(peak), NccRaw(others)),
                 SearchStatics))
    /\ UNCHANGED <<pc, tracks, current_track_idx, fpos, playback_paused, pcm_paused,
                   current_speed_idx, current_eq_idx, fir, wsola_state, exit_status,
                   write_error, track_fresh, fir_event, ctrl_count>>
    /\ UNCHANGED iter_vars
    /\ UNCHANGED scratch

\* the first call of wsola_process that produced output returns:
\* total_output_samples_generated is no longer 0
SearchProcessReturn ==
    /\ pc = "wsola"
    /\ search_result.called
    /\ wsola_state.total_output_samples_generated = 0
    /\ wsola_state' = [wsola_state EXCEPT
                          !.total_output_samples_generated = wsola_state.overlap_samples]
    /\ UNCHANGED <<pc, tracks, current_track_idx, fpos, playback_paused, pcm_paused,
                   current_speed_idx, current_eq_idx, fir, exit_status,
                   write_error, track_fresh, fir_event, ctrl_count>>
    /\ UNCHANGED iter_vars
    /\ UNCHANGED scratch
    /\ UNCHANGED search_vars

SearchNext == SearchCall \/ SearchProcessReturn

SearchSpec == SearchInit /\ [][SearchNext]_vars

\* the candidates the last call of find_best_match_segment scored
ScoredCandidates ==
    IF search_result.called
    THEN search_result.scores.coarse \cup search_result.scores.fine
    ELSE {}

\* C23: every correlation calculate_normalized_cross_correlation returned
\* to the search lies in [-1.0, 1.0], and so does every score of the
\* search after the continuity bias was added to it
C23_CorrelationScoresInRange ==
    \A c \in ScoredCandidates :
       /\ -CORR_ONE <= c[3] /\ c[3] <= CORR_ONE
       /\ -CORR_ONE <= c[2] /\ c[2] <= CORR_ONE

\* the N samples of the stream pushed into the ring (sample k of it is
\* FileSample(0, k)) from absolute offset first on
StreamSegment(first, length) == [i \in 1..length |-> FileSample(0, first + i - 1)]

\* C24: whenever wsola_process runs an iteration, for every offset d the
\* search can hand back, the N-sample segment extracted at the search
\* centre displaced by d is the stream samples at the absolute offsets
\* next_ideal + d .. next_ideal + d + N - 1
C24_SegmentIsStreamAtIdealOffset ==
    (pc = "wsola" /\ WsolaIterates) =>
       \A d \in FindBestMatchOffsets(wsola_state) :
          LET cap == wsola_state.input_buffer_capacity
              start_idx == CMod(IdealSearchCenterRingIdx(wsola_state) + d + cap, cap)
          IN GetSegment(wsola_state, start_idx, wsola_state.analysis_frame_samples)
             = StreamSegment(wsola_state.next_ideal_input_frame_start_sample_offset + d,
                             wsola_state.analysis_frame_samples)

\* the samples a step removes from the front of the ring by a discard
\* (steps that push input do not discard)
Discarded ==
    wsola_state'.input_ring_buffer_stream_start_offset
    - wsola_state.input_ring_buffer_stream_start_offset

\* C25: the discard at the end of a loop iteration and the discard after
\* the loop each remove at most half of the samples buffered when they run
C25_DiscardAtMostHalf ==
    [][(pc = "wsola" /\ wsola_state' # wsola_state)
          => 2 * Discarded <= wsola_state.input_buffer_content]_vars

\* C26: a discard, at the end of a loop iteration or after the loop,
\* removes no more samples than the ring holds and none whose absolute
\* offset lies in [next_ideal - S_w, next_ideal + N], next_ideal being the
\* value the discard runs with
C26_DiscardSparesSearchWindow ==
    [][(pc = "wsola" /\ wsola_state' # wsola_state) =>
          LET first == wsola_state.input_ring_buffer_stream_start_offset
              next_ideal == wsola_state'.next_ideal_input_frame_start_sample_offset
          IN /\ Discarded <= wsola_state.input_buffer_content
             /\ \A k \in first..(first + Discarded - 1) :
                   ~(/\ next_ideal - wsola_state.search_window_samples <= k
                     /\ k <= next_ideal + wsola_state.analysis_frame_samples)
      ]_vars

\* wsola_process has returned and its discard after the loop has run: the
\* ring starts at next_ideal - S_w, beyond where the in-loop discard leaves it
C26_DiscardedUpToSearchWindow ==
    /\ pc = "ctrl"
    /\ wsola_state.input_ring_buffer_stream_start_offset > 0
    /\ wsola_state.input_ring_buffer_stream_start_offset
       = wsola_state.next_ideal_input_frame_start_sample_offset
         - wsola_state.search_window_samples
    /\ wsola_state.input_buffer_content > 0
    /\ wsola_state.input_buffer_read_pos
       = wsola_state.input_ring_buffer_stream_start_offset

\* C27: the offset find_best_match_segment chooses for a frame differs from
\* the offset it chose for the frame before by at most S_w/2, and when the
\* best candidate of the frame is farther from the previous offset than
\* that, the offset chosen is the point half-way between the two
C27_OffsetJumpLimited ==
    [][(search_result.called /\ search_result' # search_result) =>
          LET max_allowed_jump == wsola_state.search_window_samples \div 2
              candidate == search_result'.after_fallback
          IN /\ Abs(search_result'.offset - previous_best_offset) <= max_allowed_jump
             /\ Abs(candidate - previous_best_offset) > max_allowed_jump =>
                   search_result'.offset
                   = previous_best_offset + TruncDiv(candidate - previous_best_offset, 2)
      ]_vars

\* the synthesis segment of an iteration that takes offset d: N samples
\* from the ring, each multiplied by its Q15 window coefficient
WindowedSynthesisSegment(state, d) ==
    LET cap == state.input_buffer_capacity
        raw == GetSegment(state, CMod(IdealSearchCenterRingIdx(state) + d + cap, cap),
                          state.analysis_frame_samples)
    IN [i \in 1..state.analysis_frame_samples |->
           (raw[i] * state.analysis_window_function[i]) \div 32768]

\* C28: an iteration of wsola_process appends exactly N_o samples to the
\* output, sample i of them being output_tail[i] plus sample i of the
\* windowed synthesis segment, clamped to [-32768, 32767], and leaves
\* samples N_o .. 2*N_o - 1 of the windowed segment in output_tail
C28_OverlapAddOfIteration ==
    [][(pc = "wsola" /\ pc' = "wsola") =>
          LET N_o == wsola_state.overlap_samples
              written == Len(wsola_out)
          IN \E d \in FindBestMatchOffsets(wsola_state) :
                LET segment == WindowedSynthesisSegment(wsola_state, d)
                IN /\ Len(wsola_out') = written + N_o
                   /\ SubSeq(wsola_out', 1, written) = wsola_out
                   /\ \A i \in 1..N_o :
                         LET sum == wsola_state.output_overlap_add_buffer[i] + segment[i]
                         IN wsola_out'[written + i]
                            = (IF sum > SHORT_MAX THEN SHORT_MAX
                               ELSE IF sum < SHORT_MIN THEN SHORT_MIN ELSE sum)
                   /\ wsola_state'.output_overlap_add_buffer
                      = [i \in 1..N_o |-> segment[N_o + i]]
      ]_vars

\* two iterations of one call have run, the second one on an overlap
\* buffer that held samples of the first
C28_SecondFrameOverlapped ==
    /\ pc = "wsola"
    /\ Len(wsola_out) = 2 * wsola_state.overlap_samples
    /\ wsola_out[wsola_state.overlap_samples + 1] # 0
    /\ wsola_state.output_overlap_add_buffer # Zeros(wsola_state.overlap_samples)

\* get_segment_from_ring_buffer accepts the N-sample request of every
\* iteration that passed the length check of the loop
SynthesisSegmentExtractable ==
    (pc = "wsola" /\ WsolaIterates)
        => wsola_state.analysis_frame_samples <= wsola_state.input_buffer_content

\* ------------------------------------ the equalizer alone, block by block
\* length of the mono stream that is filtered
FirStreamLen == 6

\* longest block of one apply_fir_filter call
MaxFirBlock == 3

\* the sample values of the stream
FirSampleValues == {SHORT_MIN, 12000, SHORT_MAX}

\* a mono file starts playing with a multi-tap preset selected: history
\* cleared, nothing filtered yet
FirInit ==
    /\ tracks = <<[num_channels |-> 1, len |-> FirStreamLen]>>
    /\ pc = "read"
    /\ current_track_idx = 0
    /\ fpos = 0
    /\ playback_paused = FALSE
    /\ pcm_paused = FALSE
    /\ current_speed_idx = INITIAL_SPEED_IDX
    /\ current_eq_idx \in {i \in 0..(NUM_EQ_PRESETS - 1) : Len(EQ_PRESETS(i)) > 1}
    /\ fir = initialize_fir_history
    /\ wsola_state = MainInitWsola(tracks[1], INITIAL_SPEED_IDX)
    /\ read_ret = 0
    /\ src_block = <<>>
    /\ wsola_out = <<>>
    /\ max_wsola_output_samples = 0
    /\ payload = <<>>
    /\ ptr_to_write = 0
    /\ remaining_frames_to_write = 0
    /\ sink_block = <<>>
    /\ last_write = "none"
    /\ exit_status = <<>>
    /\ write_error = FALSE
    /\ track_fresh = TRUE
    /\ fir_event = "track"
    /\ ctrl_count = 0
    /\ alloc_failures = {}
    /\ scratch = NoScratch
    /\ SearchStaticsInit

\* the next block of the stream, of any length and content, goes through
\* apply_fir_filter; src_block collects the stream and payload the output
FirCall ==
    /\ pc = "read"
    /\ \E num_samples \in 1..MaxFirBlock :
          /\ fpos + num_samples <= FirStreamLen
          /\ \E buff \in [1..num_samples -> FirSampleValues] :
                LET eq == apply_fir_filter(fir, buff, EQ_PRESETS(current_eq_idx))
                IN /\ fir' = eq.fir
                   /\ payload' = payload \o eq.out
                   /\ src_block' = src_block \o buff
          /\ read_ret' = num_samples
          /\ fpos' = fpos + num_samples
    /\ UNCHANGED <<pc, tracks, current_track_idx, playback_paused, pcm_paused,
                   current_speed_idx, current_eq_idx, wsola_state, wsola_out,
                   max_wsola_output_samples, ptr_to_write, remaining_frames_to_write,
                   sink_block, last_write, exit_status, write_error, track_fresh,
                   fir_event, ctrl_count, alloc_failures, scratch>>
    /\ UNCHANGED search_vars

FirNext == FirCall

FirSpec == FirInit /\ [][FirNext]_vars

\* sum over j = from .. num_taps-1 of coeffs[j] * x[n - j], in hundredths,
\* n counted from 1 and x[k] = 0 before the start of the stream
RECURSIVE FirConvolution(_, _, _, _)
FirConvolution(x, coeffs, n, from) ==
    IF from >= Len(coeffs) THEN 0
    ELSE coeffs[from + 1] * (IF n - from >= 1 THEN x[n - from] ELSE 0)
         + FirConvolution(x, coeffs, n, from + 1)

\* the sum clamped to the range of short and rounded as round() does
FirClampedOutput(x, coeffs, n) ==
    LET filtered_sample == FirConvolution(x, coeffs, n, 0)
    IN RoundDiv(IF filtered_sample > SHORT_MAX * 100 THEN SHORT_MAX * 100
                ELSE IF filtered_sample < SHORT_MIN * 100 THEN SHORT_MIN * 100
                ELSE filtered_sample, 100)

\* C30: with a multi-tap preset, a mono stream and a history cleared at its
\* start, however the stream is cut into consecutive apply_fir_filter
\* calls, output sample n is the clamped sum over j = 0 .. taps-1 of
\* coeff[j] * x[n-j], with x[k] = 0 for k < 0
C30_FirOutputIndependentOfBlocks ==
    /\ Len(payload) = Len(src_block)
    /\ \A n \in 1..Len(src_block) :
          payload[n] = FirClampedOutput(src_block, EQ_PRESETS(current_eq_idx), n)

\* the whole stream has been filtered with the five-tap preset, the last
\* call took a single sample, every tap of that sample's sum lay on a
\* sample of an earlier call, and an earlier output sample was clamped
C30_LastBlockUsesEarlierBlocks ==
    /\ Len(src_block) = FirStreamLen
    /\ read_ret = 1
    /\ Len(EQ_PRESETS(current_eq_idx)) = 5
    /\ \E n \in 1..(FirStreamLen - 1) :
          /\ FirConvolution(src_block, EQ_PRESETS(current_eq_idx), n, 0) > SHORT_MAX * 100
          /\ payload[n] = SHORT_MAX
    /\ payload[FirStreamLen] # RoundDiv(EQ_PRESETS(current_eq_idx)[1] * src_block[FirStreamLen], 100)

\* ---- find_best_match_segment across track changes
\* the track changes the runs go up to
MaxTrackChanges == 1

\* load_track for the next mono file, after the search has run on the
\* current one: the WSOLA state is destroyed and initialised again; the
\* statics of find_best_match_segment are out of its reach and keep their
\* values.  search_result forgets the calls made on the old state
SearchLoadTrack ==
    /\ pc = "wsola"
    /\ search_result.called
    /\ ctrl_count < MaxTrackChanges
    /\ ctrl_count' = ctrl_count + 1
    /\ wsola_state' = wsola_init(SampleRate, wav_header.num_channels,
                                 SpeedX2(current_speed_idx),
                                 DEFAULT_ANALYSIS_FRAME_MS, DEFAULT_OVERLAP_PERCENTAGE,
                                 SEARCH_RUN_WINDOW_MS)
    /\ search_result' = NoSearch
    /\ UNCHANGED <<previous_best_offset, previous_correlation,
                   consecutive_low_correlations>>
    /\ UNCHANGED <<pc, tracks, current_track_idx, fpos, playback_paused, pcm_paused,
                   current_speed_idx, current_eq_idx, fir, exit_status,
                   write_error, track_fresh, fir_event>>
    /\ UNCHANGED iter_vars
    /\ UNCHANGED scratch

TrackSearchNext == SearchCall \/ SearchProcessReturn \/ SearchLoadTrack

TrackSearchSpec == SearchInit /\ [][TrackSearchNext]_vars

C32_WritePosFollowsReadPosAndContent ==
    wsola_state # NULL =>
        LET cap == wsola_state.input_buffer_capacity
        IN /\ wsola_state.input_buffer_write_pos
              = (wsola_state.input_buffer_read_pos + wsola_state.input_buffer_content) % cap
           /\ wsola_state.input_buffer_write_pos \in 0..(cap - 1)
           /\ wsola_state.input_buffer_read_pos \in 0..(cap - 1)

\* pushes have wrapped around the end of the ring and discards have moved
\* the read position: the stored samples run over the end of the array
C32_RingWrappedAfterDiscards ==
    /\ wsola_state # NULL
    /\ wsola_state.input_buffer_write_pos < wsola_state.input_buffer_read_pos
    /\ wsola_state.input_buffer_content > 0
    /\ wsola_state.input_buffer_content < wsola_state.input_buffer_capacity
    /\ wsola_state.input_buffer_read_pos > 0
    /\ wsola_state.input_ring_buffer_stream_start_offset > 0

\* C33: when the last call of find_best_match_segment ran the coarse and
\* the fine pass (a frame after the first, S_w > 0), the offset it held
\* before the low-correlation handling and the jump protection is one of
\* the candidates the passes scored, and no candidate of either pass has a
\* higher biased score; so the best offset of the coarse pass can be that
\* offset
C33_SearchSelectsHighestScore ==
    (search_result.called /\ ScoredCandidates # {}) =>
        \E best \in ScoredCandidates :
           /\ best[1] = search_result.searched_offset
           /\ \A c \in ScoredCandidates : c[2] <= best[2]

\* C34: the PCM device is paused exactly when playback_paused is true,
\* after any pause toggles and track changes, and frames are handed to
\* snd_pcm_writei only while the device is not paused
C34_PausedFlagMatchesSink ==
    /\ pcm_paused <=> playback_paused
    /\ (pc = "write" /\ remaining_frames_to_write > 0) => ~pcm_paused

\* the offset wsola_process extracts the frame at, after a search that
\* left r, in iteration loop_iterations of the call: 0 when the search
\* returned -LLONG_MAX, 0 when it returned 0 in the first iteration,
\* otherwise the offset the search handed back
ChosenFrameOffset(r, loop_iterations) ==
    IF ~r.returned THEN 0
    ELSE IF r.max_correlation_float = 0 /\ loop_iterations <= 1 THEN 0
    ELSE r.offset

\* C35: for every outcome of the correlations, the offset
\* find_best_match_segment hands back after the low-correlation handling
\* and the jump protection, and the offset wsola_process uses for the
\* frame after its forcing to 0, lie in [-S_w, S_w]
C35_FrameOffsetWithinSearchWindow ==
    search_result.called =>
        LET S_w == wsola_state.search_window_samples
        IN /\ search_result.offset \in (-S_w)..S_w
           /\ search_result.after_fallback \in (-S_w)..S_w
           /\ \A loop_iterations \in 1..2 :
                 ChosenFrameOffset(search_result, loop_iterations) \in (-S_w)..S_w

\* a frame after the first whose search ended one sample inside the edge
\* of the window, the farthest offset the fine pass scores
C35_OffsetNextToWindowEdge ==
    /\ search_result.called
    /\ search_result.scores.fine # {}
    /\ Abs(search_result.offset) = wsola_state.search_window_samples - 1
    /\ ChosenFrameOffset(search_result, 2) = search_result.offset

\* number of calls of wsola_process in the runs that are followed to
\* their end
MaxLiveRingCalls == 2

\* a call of wsola_process, while the runs may make another one
RingLiveProcessCall == RingProcessCall /\ ctrl_count < MaxLiveRingCalls

RingLiveNext ==
    \/ RingLiveProcessCall
    \/ WsolaIter
    \/ RingProcessReturn
    \/ RingSpeedChange

\* wsola_process driven alone, its loop and its return never held up
RingLiveSpec ==
    RingInit /\ [][RingLiveNext]_vars /\ WF_vars(WsolaIter \/ RingProcessReturn)

\* C36: every call of wsola_process comes to its return; the count of
\* samples it has written is at every moment a multiple of N_o, not
\* negative and at most max_output_samples, so no sample is stored at an
\* index of max_output_samples or beyond
C36_ProcessTerminatesWithinRoom ==
    /\ [](pc = "wsola" =>
             /\ Len(wsola_out) % wsola_state.overlap_samples = 0
             /\ Len(wsola_out) <= max_wsola_output_samples)
    /\ (pc = "wsola") ~> (pc = "ctrl")

\* the loop has filled the room it was given to the last sample and stops
\* there although the ring holds the input of another frame
C36_LoopStoppedByOutputRoom ==
    /\ pc = "wsola"
    /\ Len(wsola_out) > 0
    /\ Len(wsola_out) = max_wsola_output_samples
    /\ ~WsolaIterates
    /\ wsola_state.input_ring_buffer_stream_start_offset + wsola_state.input_buffer_content
       >= wsola_state.next_ideal_input_frame_start_sample_offset
          + wsola_state.search_window_samples + wsola_state.analysis_frame_samples

\* ---- the speed and track keys alone
\* the key presses the runs go up to
MaxSpeedInputs == 4

\* '[' or ']' read by the control handler, the speed index becoming new_idx;
\* what is played between two key presses is left out, it assigns neither
\* current_speed_idx nor the speed fields of the WSOLA state
SpeedKey(new_idx) ==
    /\ pc = "ctrl" /\ ctrl_count < MaxSpeedInputs
    /\ ctrl_count' = ctrl_count + 1
    /\ current_speed_idx' = new_idx
    /\ wsola_state' = SpeedChangeWsola(wsola_state, new_idx)
    /\ UNCHANGED <<pc, tracks, current_track_idx, fpos, playback_paused, pcm_paused,
                   current_eq_idx, fir, exit_status, write_error, track_fresh, fir_event>>
    /\ UNCHANGED iter_vars
    /\ UNCHANGED scratch
    /\ UNCHANGED search_vars

SpeedKeyDown ==
    SpeedKey(IF current_speed_idx > 0 THEN current_speed_idx - 1 ELSE current_speed_idx)

SpeedKeyUp ==
    SpeedKey(IF current_speed_idx < NUM_SPEED_LEVELS - 1
             THEN current_speed_idx + 1 ELSE current_speed_idx)

\* '.' or ',' read by the control handler: dir is +1 or -1
SpeedTrackKey(dir) ==
    /\ pc = "ctrl" /\ ctrl_count < MaxSpeedInputs
    /\ ctrl_count' = ctrl_count + 1
    /\ IF num_music_files > 1
       THEN LET idx == (current_track_idx + dir + num_music_files) % num_music_files
            IN /\ current_track_idx' = idx
               /\ load_track(idx)
       ELSE UNCHANGED <<current_track_idx, fpos, playback_paused, fir, wsola_state,
                        track_fresh, fir_event>>
    /\ UNCHANGED <<pc, tracks, pcm_paused, current_speed_idx, current_eq_idx, exit_status,
                   write_error>>
    /\ UNCHANGED iter_vars
    /\ UNCHANGED scratch
    /\ UNCHANGED search_vars

SpeedNext ==
    \/ SpeedKeyDown
    \/ SpeedKeyUp
    \/ SpeedTrackKey(1)
    \/ SpeedTrackKey(-1)

SpeedSpec == Init /\ [][SpeedNext]_vars

\* C37: after any speed-down and speed-up inputs and track changes,
\* current_speed_idx is in 0 .. NUM_SPEED_LEVELS - 1, and a WSOLA state, when
\* there is one, has the speed factor PLAYBACK_SPEED_FACTORS[current_speed_idx]
\* and the synthesis hop max(1, round(H_a / speed factor))
C37_SpeedIndexAndHopFollowInputs ==
    /\ current_speed_idx \in 0..(NUM_SPEED_LEVELS - 1)
    /\ wsola_state # NULL =>
          /\ wsola_state.current_speed_factor = SpeedX2(current_speed_idx)
          /\ wsola_state.synthesis_hop_samples
             = MAX(1, RoundDiv(2 * wsola_state.analysis_hop_samples,
                               SpeedX2(current_speed_idx)))

\* four keys were read on a playlist of two files and left the second file
\* loaded at the highest speed: two of them raised the speed, one changed
\* the track, and one was ']' read at the highest speed
C37_SpeedUpAtTopOnSecondTrack ==
    /\ Len(tracks) = 2
    /\ ctrl_count = 4
    /\ current_track_idx = 1
    /\ current_speed_idx = NUM_SPEED_LEVELS - 1
    /\ wsola_state # NULL
    /\ wsola_state.synthesis_hop_samples # wsola_state.analysis_hop_samples

\* ---- C38: the scratch buffers of an iteration
\* C38: every scratch buffer allocated inside a loop iteration (EQ output,
\* speed-stage output, private copy for the sink) is freed exactly once on
\* every path that leaves the iteration, the fatal sink-error path included:
\* no buffer is ever freed twice, and outside the processing of a block
\* (before the read and after main left the loop) no buffer is still held
C38_ScratchBuffersFreedExactlyOnce ==
    /\ \A b \in ScratchBuffers : scratch[b] # "freed_twice"
    /\ pc \in {"ctrl", "read", "exit"} => \A b \in ScratchBuffers : scratch[b] = "none"

====
